---- MODULE Spec2Model ----
(***************************************************************************)
(* Model of the c-modbus-slave request pipeline: the ASCII framer          *)
(* (mbadu_ascii.c), the PDU dispatcher (mbpdu.c), the diagnostics and      *)
(* communication-event handlers (mbfn_digs.c), the coil handlers           *)
(* (mbfn_coils.c, mbcoil.c) and the instance state they share.             *)
(*                                                                         *)
(* Bytes are integers 0..255, buffers are sequences.  C indexes from 0,    *)
(* TLA+ sequences from 1: At(b, i) is the C expression b[i].               *)
(***************************************************************************)
EXTENDS Integers, Sequences, FiniteSets, TLC

VARIABLES
    cfg,    \* the configuration half of struct mbinst_s (tables, callbacks, address)
    inst,   \* inst->state, plus the coil storage the descriptors point at
    pre,    \* history: inst as it was when the last call was entered
    last,   \* history: the last call (entry point, request, return value, response)
    calls   \* number of calls made so far

vars == <<cfg, inst, pre, last, calls>>

(***************************************************************************)
(* Bounds of the model                                                     *)
(***************************************************************************)
MaxCalls == 3
\* SpecLog: requests of the fill pattern, and calls that follow them
MaxFill == 66
MaxLogCalls == 3
\* SpecFrame: calls of the ASCII framer
MaxFrameCalls == 2

(***************************************************************************)
(* mbdef.h                                                                 *)
(***************************************************************************)
MB_OK == 0
MB_ILLEGAL_FN == 1
MB_ILLEGAL_DATA_ADDR == 2
MB_ILLEGAL_DATA_VAL == 3
MB_DEV_FAIL == 4
MB_ACK == 5
MB_BUSY == 6
MB_NEG_ACK == 7
MB_MEM_PAR_ERR == 8

MBFC_READ_COILS == 1
MBFC_READ_DISC_INPUTS == 2
MBFC_READ_HOLDING_REGS == 3
MBFC_READ_FILE_RECORD == 20
MBFC_READ_INPUT_REGS == 4
MBFC_WRITE_SINGLE_COIL == 5
MBFC_WRITE_SINGLE_REG == 6
MBFC_READ_EXCEPTION_STATUS == 7
MBFC_DIAGNOSTICS == 8
MBFC_COMM_EVENT_COUNTER == 11
MBFC_COMM_EVENT_LOG == 12
MBFC_WRITE_MULTIPLE_COILS == 15
MBFC_WRITE_MULTIPLE_REGS == 16
MBFC_READ_WRITE_REGS == 23

MBFC_DIGS_LOOPBACK == 0
MBFC_DIGS_RESTART_COMMS_OPT == 1
MBFC_DIGS_REG == 2
MBFC_DIGS_ASCII_DELIM == 3
MBFC_DIGS_FORCE_LISTEN == 4
MBFC_DIGS_CLR_CNTS_N_DIAG_REG == 10
MBFC_DIGS_BUS_MSG_COUNT == 11
MBFC_DIGS_BUS_COMM_ERR_COUNT == 12
MBFC_DIGS_BUS_EXCEPTION_COUNT == 13
MBFC_DIGS_MSG_COUNT == 14
MBFC_DIGS_NO_RESP_MSG_COUNT == 15
MBFC_DIGS_NAK_COUNT == 16
MBFC_DIGS_BUSY_COUNT == 17
MBFC_DIGS_BUS_OVERRUN_COUNT == 18
MBFC_DIGS_CLR_OVERRUN == 20

MB_ERR_FLG == 128
MB_COMM_EVENT_LOG_LEN == 64

MB_COMM_EVENT_IS_RECV == 128
MB_COMM_EVENT_RECV_COMM_ERR == 2
MB_COMM_EVENT_RECV_LISTEN_MODE == 32
MB_COMM_EVENT_RECV_BROADCAST == 64
MB_COMM_EVENT_SEND_READ_EX == 1
MB_COMM_EVENT_SEND_ABORT_EX == 2
MB_COMM_EVENT_SEND_BUSY_EX == 4
MB_COMM_EVENT_SEND_NAK_EX == 8
MB_COMM_EVENT_SEND_LISTEN_ONLY == 32
MB_COMM_EVENT_IS_SEND == 64
MB_COMM_EVENT_COMM_RESTART == 0
MB_COMM_EVENT_ENTERED_LISTEN_ONLY == 4

(***************************************************************************)
(* Byte helpers                                                            *)
(***************************************************************************)
\* a null descriptor pointer, and a null data or function pointer in a descriptor
NULL == [null |-> TRUE]
NULLP == "NULL"

\* the C expression b[i]
At(b, i) == b[i + 1]

\* a | b on unsigned integers
RECURSIVE BitOr(_, _)
BitOr(a, b) ==
    IF a = 0 THEN b
    ELSE IF b = 0 THEN a
    ELSE (IF (a % 2 = 1) \/ (b % 2 = 1) THEN 1 ELSE 0) + 2 * BitOr(a \div 2, b \div 2)

\* a & b on unsigned integers
RECURSIVE BitAnd(_, _)
BitAnd(a, b) ==
    IF (a = 0) \/ (b = 0) THEN 0
    ELSE (IF (a % 2 = 1) /\ (b % 2 = 1) THEN 1 ELSE 0) + 2 * BitAnd(a \div 2, b \div 2)

\* 1u << n
RECURSIVE Shl1(_)
Shl1(n) == IF n = 0 THEN 1 ELSE 2 * Shl1(n - 1)

\* endian.c: big-endian 16-bit read at offset i, and write
betou16(b, i) == At(b, i) * 256 + At(b, i + 1)
u16tobe(v) == << (v \div 256) % 256, v % 256 >>

(***************************************************************************)
(* Instance state (mbinst.c)                                               *)
(***************************************************************************)
CounterNames ==
    { "comm_event_counter", "bus_msg_counter", "bus_comm_err_counter",
      "exception_counter", "msg_counter", "no_resp_counter", "nak_counter",
      "busy_counter", "bus_char_overrun_counter" }

\* mbinst_init: zeroed counters and event log, delimiter LF, not listen-only.
\* coil_mem is the byte cell the pointer-mode coil descriptors refer to;
\* hist is a history field: the events appended since the log was last
\* cleared, oldest first.
mbinst_init ==
    [ is_listen_only |-> FALSE,
      ascii_delimiter |-> 10,
      status |-> 0,
      comm_event_counter |-> 0,
      bus_msg_counter |-> 0,
      bus_comm_err_counter |-> 0,
      exception_counter |-> 0,
      msg_counter |-> 0,
      no_resp_counter |-> 0,
      nak_counter |-> 0,
      busy_counter |-> 0,
      bus_char_overrun_counter |-> 0,
      event_log |-> [i \in 0..(MB_COMM_EVENT_LOG_LEN - 1) |-> 0],
      event_log_write_pos |-> 0,
      event_log_count |-> 0,
      coil_mem |-> 0,
      hist |-> << >> ]

\* mb_add_comm_event: store at write_pos, rotate write_pos, saturate count
mb_add_comm_event(s, event) ==
    [ s EXCEPT
        !.event_log[s.event_log_write_pos] = event,
        !.event_log_write_pos = (s.event_log_write_pos + 1) % MB_COMM_EVENT_LOG_LEN,
        !.event_log_count = IF s.event_log_count < MB_COMM_EVENT_LOG_LEN
                            THEN s.event_log_count + 1
                            ELSE s.event_log_count,
        !.hist = Append(s.hist, event) ]

(***************************************************************************)
(* A handler returns its status, the instance as it leaves it, the         *)
(* response bytes p[0 .. size-1], the host callbacks it invoked, in order, *)
(* and the name of the innermost handler function that ran.                *)
(***************************************************************************)
Ret(st, s, res, cbs, fn) == [st |-> st, s |-> s, res |-> res, cbs |-> cbs, fn |-> fn]

\* one invocation of a host callback: its name, the object it is attached to
\* (a coil address, else 0) and the argument it got (else 0)
Cb(name, a, v) == << <<name, a, v>> >>

(***************************************************************************)
(* mbfn_digs.c                                                             *)
(***************************************************************************)
\* reset_comm_counters that leaves msg_counter alone
reset_comm_counters_but_msg(s) ==
    [ s EXCEPT
        !.comm_event_counter = 0,
        !.bus_msg_counter = 0,
        !.bus_comm_err_counter = 0,
        !.exception_counter = 0,
        !.no_resp_counter = 0,
        !.nak_counter = 0,
        !.busy_counter = 0,
        !.bus_char_overrun_counter = 0 ]

reset_comm_counters(s) ==
    [ s EXCEPT
        !.comm_event_counter = 0,
        !.bus_msg_counter = 0,
        !.bus_comm_err_counter = 0,
        !.exception_counter = 0,
        !.msg_counter = 0,
        !.no_resp_counter = 0,
        !.nak_counter = 0,
        !.busy_counter = 0,
        !.bus_char_overrun_counter = 0 ]

\* 0x00 Return Query Data
loopback(s, req, res) == Ret(MB_OK, s, req, << >>, "loopback")

\* restart_comms_opt that never clears the event log
restart_log_keep(s, val) == mb_add_comm_event(s, MB_COMM_EVENT_COMM_RESTART)

\* the two branches of restart_comms_opt on the data field
restart_log(s, val) ==
    IF val = 65280
    THEN [ s EXCEPT !.event_log_write_pos = 0, !.event_log_count = 0, !.hist = << >> ]
    ELSE mb_add_comm_event(s, MB_COMM_EVENT_COMM_RESTART)

\* restart_comms_opt leaving the listen-only flag as it is
restart_comms_opt_keep_listen_only(c, s, req, res) ==
    IF Len(req) # 5 THEN Ret(MB_ILLEGAL_DATA_VAL, s, res, << >>, "restart_comms_opt")
    ELSE LET val == betou16(req, 3) IN
         IF (val # 0) /\ (val # 65280)
         THEN Ret(MB_ILLEGAL_DATA_VAL, s, res, << >>, "restart_comms_opt")
         ELSE LET s1 == reset_comm_counters(s)
              IN  Ret(MB_OK, restart_log(s1, val), res \o u16tobe(val),
                      IF c.has_request_restart THEN Cb("request_restart", 0, 0) ELSE << >>,
                      "restart_comms_opt")

\* restart_comms_opt leaving listen-only mode before it validates the request
restart_comms_opt_leave_first(c, s, req, res) ==
    IF Len(req) # 5
    THEN Ret(MB_ILLEGAL_DATA_VAL, [s EXCEPT !.is_listen_only = FALSE], res, << >>,
             "restart_comms_opt")
    ELSE LET val == betou16(req, 3) IN
         IF (val # 0) /\ (val # 65280)
         THEN Ret(MB_ILLEGAL_DATA_VAL, [s EXCEPT !.is_listen_only = FALSE], res, << >>,
                  "restart_comms_opt")
         ELSE LET s1 == reset_comm_counters([s EXCEPT !.is_listen_only = FALSE])
              IN  Ret(MB_OK, restart_log(s1, val), res \o u16tobe(val),
                      IF c.has_request_restart THEN Cb("request_restart", 0, 0) ELSE << >>,
                      "restart_comms_opt")

\* 0x01 Restart Communications Option
restart_comms_opt(c, s, req, res) ==
    IF Len(req) # 5 THEN Ret(MB_ILLEGAL_DATA_VAL, s, res, << >>, "restart_comms_opt")
    ELSE LET val == betou16(req, 3) IN
         IF (val # 0) /\ (val # 65280)
         THEN Ret(MB_ILLEGAL_DATA_VAL, s, res, << >>, "restart_comms_opt")
         ELSE LET s1 == reset_comm_counters([s EXCEPT !.is_listen_only = FALSE])
              IN  Ret(MB_OK, restart_log(s1, val), res \o u16tobe(val),
                      IF c.has_request_restart THEN Cb("request_restart", 0, 0) ELSE << >>,
                      "restart_comms_opt")

\* 0x02 Return Diagnostic Register
read_diagnostic_reg(c, s, req, res, env) ==
    IF Len(req) # 5 THEN Ret(MB_ILLEGAL_DATA_VAL, s, res, << >>, "read_diagnostic_reg")
    ELSE IF betou16(req, 3) # 0 THEN Ret(MB_ILLEGAL_DATA_VAL, s, res, << >>, "read_diagnostic_reg")
    ELSE IF c.has_read_diagnostics
         THEN Ret(MB_OK, s, res \o u16tobe(env.diag_reg), Cb("read_diagnostics_cb", 0, 0),
                  "read_diagnostic_reg")
         ELSE Ret(MB_OK, s, res \o u16tobe(0), << >>, "read_diagnostic_reg")

\* change_ascii_delimiter that does not look at the low byte of the data
change_ascii_delimiter_low_unchecked(s, req, res) ==
    IF Len(req) # 5 THEN Ret(MB_ILLEGAL_DATA_VAL, s, res, << >>, "change_ascii_delimiter")
    ELSE IF At(req, 3) > 127 THEN Ret(MB_ILLEGAL_DATA_VAL, s, res, << >>, "change_ascii_delimiter")
    ELSE Ret(MB_OK, [s EXCEPT !.ascii_delimiter = At(req, 3)],
             res \o << At(req, 3), 0 >>, << >>, "change_ascii_delimiter")

\* 0x03 Change ASCII Input Delimiter
change_ascii_delimiter(s, req, res) ==
    IF Len(req) # 5 THEN Ret(MB_ILLEGAL_DATA_VAL, s, res, << >>, "change_ascii_delimiter")
    ELSE IF At(req, 3) > 127 THEN Ret(MB_ILLEGAL_DATA_VAL, s, res, << >>, "change_ascii_delimiter")
    ELSE IF At(req, 4) # 0 THEN Ret(MB_ILLEGAL_DATA_VAL, s, res, << >>, "change_ascii_delimiter")
    ELSE Ret(MB_OK, [s EXCEPT !.ascii_delimiter = At(req, 3)],
             res \o << At(req, 3), 0 >>, << >>, "change_ascii_delimiter")

\* 0x04 Force Listen Only Mode
force_listen_only(s, req, res) ==
    IF Len(req) # 5 THEN Ret(MB_ILLEGAL_DATA_VAL, s, res, << >>, "force_listen_only")
    ELSE IF betou16(req, 3) # 0 THEN Ret(MB_ILLEGAL_DATA_VAL, s, res, << >>, "force_listen_only")
    ELSE Ret(MB_OK,
             mb_add_comm_event([s EXCEPT !.is_listen_only = TRUE],
                               MB_COMM_EVENT_ENTERED_LISTEN_ONLY),
             res, << >>, "force_listen_only")

\* 0x0A Clear Counters and Diagnostic Register
clear_counts_n_diag_reg(c, s, req, res) ==
    IF Len(req) # 5 THEN Ret(MB_ILLEGAL_DATA_VAL, s, res, << >>, "clear_counts_n_diag_reg")
    ELSE IF betou16(req, 3) # 0
         THEN Ret(MB_ILLEGAL_DATA_VAL, s, res, << >>, "clear_counts_n_diag_reg")
    ELSE Ret(MB_OK, reset_comm_counters(s), res \o << 0, 0 >>,
             IF c.has_reset_diagnostics THEN Cb("reset_diagnostics_cb", 0, 0) ELSE << >>,
             "clear_counts_n_diag_reg")

\* 0x0B .. 0x12 Return a counter
read_counter(counter_value, s, req, res) ==
    IF Len(req) # 5 THEN Ret(MB_ILLEGAL_DATA_VAL, s, res, << >>, "read_counter")
    ELSE IF betou16(req, 3) # 0 THEN Ret(MB_ILLEGAL_DATA_VAL, s, res, << >>, "read_counter")
    ELSE Ret(MB_OK, s, res \o u16tobe(counter_value), << >>, "read_counter")

\* clr_overrun clearing every counter
clr_overrun_all_counters(s, req, res) ==
    IF Len(req) # 5 THEN Ret(MB_ILLEGAL_DATA_VAL, s, res, << >>, "clr_overrun")
    ELSE IF betou16(req, 3) # 0 THEN Ret(MB_ILLEGAL_DATA_VAL, s, res, << >>, "clr_overrun")
    ELSE Ret(MB_OK, reset_comm_counters(s), res \o << 0, 0 >>, << >>, "clr_overrun")

\* 0x14 Clear Overrun Counter and Flag
clr_overrun(s, req, res) ==
    IF Len(req) # 5 THEN Ret(MB_ILLEGAL_DATA_VAL, s, res, << >>, "clr_overrun")
    ELSE IF betou16(req, 3) # 0 THEN Ret(MB_ILLEGAL_DATA_VAL, s, res, << >>, "clr_overrun")
    ELSE Ret(MB_OK, [s EXCEPT !.bus_char_overrun_counter = 0],
             res \o << 0, 0 >>, << >>, "clr_overrun")

\* FC 0x08: echo function and sub-function code, then switch on the sub-function
mbfn_digs(c, s, req, env) ==
    IF Len(req) < 3 THEN Ret(MB_ILLEGAL_DATA_VAL, s, << At(req, 0) >>, << >>, "mbfn_digs")
    ELSE LET res == << At(req, 0), At(req, 1), At(req, 2) >>
             sub == betou16(req, 1)
         IN  CASE sub = MBFC_DIGS_LOOPBACK -> loopback(s, req, res)
               [] sub = MBFC_DIGS_RESTART_COMMS_OPT -> restart_comms_opt(c, s, req, res)
               [] sub = MBFC_DIGS_REG -> read_diagnostic_reg(c, s, req, res, env)
               [] sub = MBFC_DIGS_ASCII_DELIM -> change_ascii_delimiter(s, req, res)
               [] sub = MBFC_DIGS_FORCE_LISTEN -> force_listen_only(s, req, res)
               [] sub = MBFC_DIGS_CLR_CNTS_N_DIAG_REG -> clear_counts_n_diag_reg(c, s, req, res)
               [] sub = MBFC_DIGS_BUS_MSG_COUNT -> read_counter(s.bus_msg_counter, s, req, res)
               [] sub = MBFC_DIGS_BUS_COMM_ERR_COUNT ->
                      read_counter(s.bus_comm_err_counter, s, req, res)
               [] sub = MBFC_DIGS_BUS_EXCEPTION_COUNT ->
                      read_counter(s.exception_counter, s, req, res)
               [] sub = MBFC_DIGS_MSG_COUNT -> read_counter(s.msg_counter, s, req, res)
               [] sub = MBFC_DIGS_NO_RESP_MSG_COUNT ->
                      read_counter(s.no_resp_counter, s, req, res)
               [] sub = MBFC_DIGS_NAK_COUNT -> read_counter(s.nak_counter, s, req, res)
               [] sub = MBFC_DIGS_BUSY_COUNT -> read_counter(s.busy_counter, s, req, res)
               [] sub = MBFC_DIGS_BUS_OVERRUN_COUNT ->
                      read_counter(s.bus_char_overrun_counter, s, req, res)
               [] sub = MBFC_DIGS_CLR_OVERRUN -> clr_overrun(s, req, res)
               [] OTHER -> Ret(MB_ILLEGAL_FN, s, res, << >>, "mbfn_digs")

\* FC 0x0B Get Comm Event Counter
mbfn_comm_event_counter(s, req) ==
    IF Len(req) # 1 THEN Ret(MB_ILLEGAL_DATA_VAL, s, << At(req, 0) >>, << >>, "mbfn_comm_event_counter")
    ELSE Ret(MB_OK, s,
             << At(req, 0) >> \o u16tobe(s.status) \o u16tobe(s.comm_event_counter),
             << >>, "mbfn_comm_event_counter")

\* a reading index that starts at write_pos instead of the entry before it
event_log_ix_from_write_pos(s, i) ==
    (s.event_log_write_pos + MB_COMM_EVENT_LOG_LEN - i) % MB_COMM_EVENT_LOG_LEN

\* the index the i-th event byte of FC 0x0C is read from
event_log_ix(s, i) ==
    (s.event_log_write_pos + MB_COMM_EVENT_LOG_LEN - 1 - i) % MB_COMM_EVENT_LOG_LEN

\* mbfn_comm_event_log reading the log as it is once the send event of the
\* request is in it
mbfn_comm_event_log_after_send(s, req) ==
    IF Len(req) # 1 THEN Ret(MB_ILLEGAL_DATA_VAL, s, << At(req, 0) >>, << >>, "mbfn_comm_event_log")
    ELSE LET t == mb_add_comm_event(s, MB_COMM_EVENT_IS_SEND) IN
         Ret(MB_OK, s,
             << At(req, 0), (6 + (t.event_log_count % 256)) % 256 >>
                \o u16tobe(s.status) \o u16tobe(s.comm_event_counter)
                \o u16tobe(s.bus_msg_counter)
                \o [i \in 1..t.event_log_count |-> t.event_log[event_log_ix(t, i - 1)]],
             << >>, "mbfn_comm_event_log")

\* FC 0x0C Get Comm Event Log
mbfn_comm_event_log(s, req) ==
    IF Len(req) # 1 THEN Ret(MB_ILLEGAL_DATA_VAL, s, << At(req, 0) >>, << >>, "mbfn_comm_event_log")
    ELSE Ret(MB_OK, s,
             << At(req, 0), (6 + (s.event_log_count % 256)) % 256 >>
                \o u16tobe(s.status) \o u16tobe(s.comm_event_counter)
                \o u16tobe(s.bus_msg_counter)
                \o [i \in 1..s.event_log_count |-> s.event_log[event_log_ix(s, i - 1)]],
             << >>, "mbfn_comm_event_log")

(***************************************************************************)
(* mbcoil.c                                                                *)
(***************************************************************************)
BSEARCH_THRESHOLD == 16

\* binary search of mbcoil_find_desc over table indices l..r (0-based)
RECURSIVE mbcoil_bsearch(_, _, _, _)
mbcoil_bsearch(coils, l, r, addr) ==
    IF l > r THEN NULL
    ELSE LET m == l + (r - l) \div 2
             coil == At(coils, m)
         IN  IF coil.address < addr THEN mbcoil_bsearch(coils, m + 1, r, addr)
             ELSE IF coil.address > addr
                  THEN IF m = 0 THEN NULL ELSE mbcoil_bsearch(coils, l, m - 1, addr)
             ELSE coil

\* linear scan of mbcoil_find_desc from index i
RECURSIVE mbcoil_lsearch(_, _, _)
mbcoil_lsearch(coils, i, addr) ==
    IF i >= Len(coils) THEN NULL
    ELSE IF At(coils, i).address = addr THEN At(coils, i)
    ELSE mbcoil_lsearch(coils, i + 1, addr)

\* a descriptor table is [null, d]: whether the pointer is NULL, and the array
mbcoil_find_desc(coils, addr) ==
    IF coils.null \/ (Len(coils.d) = 0) THEN NULL
    ELSE IF Len(coils.d) > BSEARCH_THRESHOLD
         THEN mbcoil_bsearch(coils.d, 0, Len(coils.d) - 1, addr)
         ELSE mbcoil_lsearch(coils.d, 0, addr)

MBCOIL_READ_OFF == 0
MBCOIL_READ_ON == 1
MBCOIL_READ_LOCKED == 2
MBCOIL_READ_NO_ACCESS == 3
MBCOIL_READ_DEV_FAIL == 4

\* !!x
Bool01(x) == IF x # 0 THEN 1 ELSE 0

mbcoil_read(coil, s, env) ==
    IF coil = NULL THEN MBCOIL_READ_DEV_FAIL
    ELSE IF coil.rlock_cb /\ env.rlock THEN MBCOIL_READ_LOCKED
    ELSE CASE coil.r = "val" -> Bool01(coil.val)
           [] coil.r = "ptr" ->
                  IF (coil.rptr # NULLP) /\ (coil.rix < 8)
                  THEN Bool01(BitAnd(s.coil_mem, Shl1(coil.rix)))
                  ELSE MBCOIL_READ_DEV_FAIL
           [] coil.r = "fn" ->
                  IF coil.rfn # NULLP THEN Bool01(env.rfn) ELSE MBCOIL_READ_DEV_FAIL
           [] OTHER -> MBCOIL_READ_NO_ACCESS


\* mbcoil_write_allowed that does not ask the write-lock predicate
mbcoil_write_allowed_unlocked(coil, env) == coil # NULL

mbcoil_write_allowed(coil, env) ==
    IF coil = NULL THEN FALSE
    ELSE IF coil.wlock_cb /\ env.wlock THEN FALSE
    ELSE TRUE

\* mbcoil_write: the status, the storage after the write, the callbacks invoked
mbcoil_write(coil, value, s, env) ==
    IF coil = NULL THEN [st |-> MB_DEV_FAIL, s |-> s, cbs |-> << >>]
    ELSE CASE coil.w = "ptr" ->
                  IF (coil.wptr = NULLP) \/ (coil.wix > 7)
                  THEN [st |-> MB_DEV_FAIL, s |-> s, cbs |-> << >>]
                  ELSE [st |-> MB_OK,
                        s |-> [s EXCEPT !.coil_mem =
                                 IF value # 0
                                 THEN BitOr(s.coil_mem, Shl1(coil.wix))
                                 ELSE BitAnd(s.coil_mem, 255 - Shl1(coil.wix))],
                        cbs |-> << >>]
           [] coil.w = "fn" ->
                  IF coil.wfn = NULLP
                  THEN [st |-> MB_DEV_FAIL, s |-> s, cbs |-> << >>]
                  ELSE [st |-> env.wfn_st, s |-> s,
                        cbs |-> Cb("write.fn", coil.address, value)]
           [] OTHER -> [st |-> MB_DEV_FAIL, s |-> s, cbs |-> << >>]

(***************************************************************************)
(* mbfn_coils.c                                                            *)
(***************************************************************************)
MBCOIL_N_READ_MAX == 2000
MBCOIL_N_WRITE_MAX == 1968
MBCOIL_OFF == 0
MBCOIL_ON == 65280

\* the target address computed without the width of uint16_t
coil_addr_unwrapped(start_addr, i) == start_addr + i

\* (start_addr + (uint16_t)i) stored in a uint16_t
coil_addr(start_addr, i) == (start_addr + i) % 65536


\* read_coils_step packing the coils from the most significant bit down
read_coils_step_msb_first(coils, s, env, start_addr, i, data) ==
    LET coil == mbcoil_find_desc(coils, coil_addr(start_addr, i)) IN
    IF coil = NULL THEN [st |-> MB_OK, data |-> data]
    ELSE LET v == mbcoil_read(coil, s, env) IN
         CASE v = MBCOIL_READ_OFF -> [st |-> MB_OK, data |-> data]
           [] v = MBCOIL_READ_ON ->
                  [st |-> MB_OK,
                   data |-> [data EXCEPT ![1 + i \div 8] = BitOr(@, Shl1(7 - (i % 8)))]]
           [] v = MBCOIL_READ_LOCKED -> [st |-> MB_ILLEGAL_DATA_ADDR, data |-> data]
           [] v = MBCOIL_READ_NO_ACCESS -> [st |-> MB_OK, data |-> data]
           [] OTHER -> [st |-> MB_DEV_FAIL, data |-> data]

\* one pass of the read loop of mbfn_read_coils, for offset i; data is p[2 ..]
read_coils_step(coils, s, env, start_addr, i, data) ==
    LET coil == mbcoil_find_desc(coils, coil_addr(start_addr, i)) IN
    IF coil = NULL THEN [st |-> MB_OK, data |-> data]
    ELSE LET v == mbcoil_read(coil, s, env) IN
         CASE v = MBCOIL_READ_OFF -> [st |-> MB_OK, data |-> data]
           [] v = MBCOIL_READ_ON ->
                  [st |-> MB_OK,
                   data |-> [data EXCEPT ![1 + i \div 8] = BitOr(@, Shl1(i % 8))]]
           [] v = MBCOIL_READ_LOCKED -> [st |-> MB_ILLEGAL_DATA_ADDR, data |-> data]
           [] v = MBCOIL_READ_NO_ACCESS -> [st |-> MB_OK, data |-> data]
           [] OTHER -> [st |-> MB_DEV_FAIL, data |-> data]

\* the read loop of mbfn_read_coils for the offsets i .. quantity-1, in
\* ascending order and stopping at the first return: the offsets below the
\* midpoint first, the rest only if those did not return
RECURSIVE read_coils_loop(_, _, _, _, _, _, _)
read_coils_rest(coils, s, env, start_addr, quantity, mid, r) ==
    IF r.st # MB_OK THEN r
    ELSE read_coils_loop(coils, s, env, start_addr, quantity, mid, r.data)

read_coils_loop(coils, s, env, start_addr, quantity, i, data) ==
    IF i >= quantity THEN [st |-> MB_OK, data |-> data]
    ELSE IF quantity - i = 1 THEN read_coils_step(coils, s, env, start_addr, i, data)
    ELSE read_coils_rest(coils, s, env, start_addr, quantity, i + (quantity - i) \div 2,
             read_coils_loop(coils, s, env, start_addr, i + (quantity - i) \div 2, i, data))

\* FC 0x01 / 0x02
mbfn_read_coils(s, coils, req, env) ==
    LET res == << At(req, 0) >> IN
    IF coils.null THEN Ret(MB_DEV_FAIL, s, res, << >>, "mbfn_read_coils")
    ELSE IF (At(req, 0) # MBFC_READ_COILS) /\ (At(req, 0) # MBFC_READ_DISC_INPUTS)
         THEN Ret(MB_DEV_FAIL, s, res, << >>, "mbfn_read_coils")
    ELSE IF Len(req) # 5 THEN Ret(MB_ILLEGAL_DATA_VAL, s, res, << >>, "mbfn_read_coils")
    ELSE LET start_addr == betou16(req, 1)
             quantity == betou16(req, 3)
         IN  IF (quantity = 0) \/ (quantity > MBCOIL_N_READ_MAX)
             THEN Ret(MB_ILLEGAL_DATA_VAL, s, res, << >>, "mbfn_read_coils")
             ELSE IF mbcoil_find_desc(coils, start_addr) = NULL
             THEN Ret(MB_ILLEGAL_DATA_ADDR, s, res, << >>, "mbfn_read_coils")
             ELSE LET byte_count == ((quantity + 7) \div 8) % 256
                      r == read_coils_loop(coils, s, env, start_addr, quantity, 0,
                                           [k \in 1..byte_count |-> 0])
                  IN  Ret(r.st, s, res \o << byte_count >> \o r.data, << >>,
                          "mbfn_read_coils")

\* the callbacks a successful write of one coil ends with
post_write(coil) ==
    IF coil.post_write_cb THEN Cb("post_write_cb", coil.address, 0) ELSE << >>

commit_coils_write(c) ==
    IF c.has_commit_coils_write THEN Cb("commit_coils_write_cb", 0, 0) ELSE << >>

\* FC 0x05
mbfn_write_coil(c, s, coils, req, env) ==
    LET res == << At(req, 0) >> IN
    IF coils.null THEN Ret(MB_DEV_FAIL, s, res, << >>, "mbfn_write_coil")
    ELSE IF At(req, 0) # MBFC_WRITE_SINGLE_COIL
         THEN Ret(MB_DEV_FAIL, s, res, << >>, "mbfn_write_coil")
    ELSE IF Len(req) # 5 THEN Ret(MB_ILLEGAL_DATA_VAL, s, res, << >>, "mbfn_write_coil")
    ELSE LET addr == betou16(req, 1)
             coil_value == betou16(req, 3)
             coil == mbcoil_find_desc(coils, addr)
         IN  IF (coil_value # MBCOIL_OFF) /\ (coil_value # MBCOIL_ON)
             THEN Ret(MB_ILLEGAL_DATA_VAL, s, res, << >>, "mbfn_write_coil")
             ELSE IF coil = NULL
             THEN Ret(MB_ILLEGAL_DATA_ADDR, s, res, << >>, "mbfn_write_coil")
             ELSE IF ~mbcoil_write_allowed(coil, env)
             THEN Ret(MB_ILLEGAL_DATA_ADDR, s, res, << >>, "mbfn_write_coil")
             ELSE LET w == mbcoil_write(coil, Bool01(coil_value), s, env) IN
                  IF w.st # MB_OK
                  THEN Ret(w.st, w.s, res, w.cbs, "mbfn_write_coil")
                  ELSE Ret(MB_OK, w.s,
                           << At(req, 0), At(req, 1), At(req, 2), At(req, 3), At(req, 4) >>,
                           w.cbs \o post_write(coil) \o commit_coils_write(c),
                           "mbfn_write_coil")


\* a pre-validation that looks at the first coil of the range only
write_coils_allowed_first_only(coils, env, start_addr, quantity, i) ==
    LET coil == mbcoil_find_desc(coils, coil_addr(start_addr, i)) IN
    (coil # NULL) /\ mbcoil_write_allowed(coil, env)

\* the pre-validation loop of mbfn_write_coils from offset i
RECURSIVE write_coils_allowed(_, _, _, _, _)
write_coils_allowed(coils, env, start_addr, quantity, i) ==
    IF i >= quantity THEN TRUE
    ELSE LET coil == mbcoil_find_desc(coils, coil_addr(start_addr, i)) IN
         IF coil = NULL THEN FALSE
         ELSE IF ~mbcoil_write_allowed(coil, env) THEN FALSE
         ELSE write_coils_allowed(coils, env, start_addr, quantity, i + 1)

\* write_coils_loop running the post-write hook of a coil whose write failed
RECURSIVE write_coils_loop_hook_on_failure(_, _, _, _, _, _, _, _)
write_coils_loop_hook_on_failure(coils, s, env, req, start_addr, quantity, i, cbs) ==
    IF i >= quantity THEN [st |-> MB_OK, s |-> s, cbs |-> cbs]
    ELSE LET coil == mbcoil_find_desc(coils, coil_addr(start_addr, i))
             bit == Bool01(BitAnd(At(req, 6 + i \div 8), Shl1(i % 8)))
             w == mbcoil_write(coil, bit, s, env)
         IN  IF w.st # MB_OK
             THEN [st |-> w.st, s |-> w.s, cbs |-> cbs \o w.cbs \o post_write(coil)]
             ELSE write_coils_loop_hook_on_failure(coils, w.s, env, req, start_addr,
                                                   quantity, i + 1,
                                                   cbs \o w.cbs \o post_write(coil))

\* the write loop of mbfn_write_coils from offset i
RECURSIVE write_coils_loop(_, _, _, _, _, _, _, _)
write_coils_loop(coils, s, env, req, start_addr, quantity, i, cbs) ==
    IF i >= quantity THEN [st |-> MB_OK, s |-> s, cbs |-> cbs]
    ELSE LET coil == mbcoil_find_desc(coils, coil_addr(start_addr, i))
             bit == Bool01(BitAnd(At(req, 6 + i \div 8), Shl1(i % 8)))
             w == mbcoil_write(coil, bit, s, env)
         IN  IF w.st # MB_OK THEN [st |-> w.st, s |-> w.s, cbs |-> cbs \o w.cbs]
             ELSE write_coils_loop(coils, w.s, env, req, start_addr, quantity, i + 1,
                                   cbs \o w.cbs \o post_write(coil))

\* FC 0x0F
mbfn_write_coils(c, s, coils, req, env) ==
    LET res == << At(req, 0) >> IN
    IF coils.null THEN Ret(MB_DEV_FAIL, s, res, << >>, "mbfn_write_coils")
    ELSE IF At(req, 0) # MBFC_WRITE_MULTIPLE_COILS
         THEN Ret(MB_DEV_FAIL, s, res, << >>, "mbfn_write_coils")
    ELSE IF Len(req) < 7 THEN Ret(MB_ILLEGAL_DATA_VAL, s, res, << >>, "mbfn_write_coils")
    ELSE LET start_addr == betou16(req, 1)
             quantity == betou16(req, 3)
             byte_count == At(req, 5)
         IN  IF (quantity = 0) \/ (quantity > MBCOIL_N_WRITE_MAX)
             THEN Ret(MB_ILLEGAL_DATA_VAL, s, res, << >>, "mbfn_write_coils")
             ELSE IF byte_count # (quantity + 7) \div 8
             THEN Ret(MB_ILLEGAL_DATA_VAL, s, res, << >>, "mbfn_write_coils")
             ELSE IF Len(req) # 6 + byte_count
             THEN Ret(MB_ILLEGAL_DATA_VAL, s, res, << >>, "mbfn_write_coils")
             ELSE IF ~write_coils_allowed(coils, env, start_addr, quantity, 0)
             THEN Ret(MB_ILLEGAL_DATA_ADDR, s, res, << >>, "mbfn_write_coils")
             ELSE LET w == write_coils_loop(coils, s, env, req, start_addr, quantity,
                                            0, << >>)
                  IN  IF w.st # MB_OK
                      THEN Ret(w.st, w.s, res, w.cbs, "mbfn_write_coils")
                      ELSE Ret(MB_OK, w.s,
                               res \o u16tobe(start_addr) \o u16tobe(quantity),
                               w.cbs \o commit_coils_write(c), "mbfn_write_coils")


(***************************************************************************)
(* mbfn_regs.c: reading 16-bit registers held by value                     *)
(***************************************************************************)
MBREG_N_READ_MAX == 125

\* the descriptor of a register kept as an inline 16-bit constant
\* a register descriptor of one 16-bit word: read access r ("val": the inline
\* constant val, "ptr": word ix of reg_mem, "fn": a callback, "none"), write
\* access w ("ptr", "fn", "none"), the lock predicates and the post-write
\* hook it carries
RegDesc(address, r, val, w, ix, rlock_cb, wlock_cb, post_write_cb) ==
    [ address |-> address, r |-> r, val |-> val, w |-> w, ix |-> ix,
      rlock_cb |-> rlock_cb, wlock_cb |-> wlock_cb, post_write_cb |-> post_write_cb ]

\* a read-only register holding val inline
Reg(address, val) == RegDesc(address, "val", val, "none", 0, FALSE, FALSE, FALSE)

RECURSIVE mbreg_find_from(_, _, _)
mbreg_find_from(regs, addr, k) ==
    IF k > Len(regs.d) THEN NULL
    ELSE IF regs.d[k].address = addr THEN regs.d[k]
    ELSE mbreg_find_from(regs, addr, k + 1)

mbreg_find_desc(regs, addr) == mbreg_find_from(regs, addr, 1)

\* the big-endian words of quantity registers from start_addr on
RECURSIVE read_regs_words(_, _, _, _)
read_regs_words(regs, start_addr, quantity, i) ==
    IF i >= quantity THEN << >>
    ELSE LET reg == mbreg_find_desc(regs, (start_addr + i) % 65536) IN
         (IF reg = NULL THEN << 0, 0 >> ELSE u16tobe(reg.val))
             \o read_regs_words(regs, start_addr, quantity, i + 1)

\* FC 0x03
mbfn_read_regs(s, regs, req) ==
    LET res == << At(req, 0) >> IN
    IF Len(req) # 5 THEN Ret(MB_ILLEGAL_DATA_VAL, s, res, << >>, "mbfn_read_regs")
    ELSE LET start_addr == betou16(req, 1)
             quantity == betou16(req, 3)
         IN  IF (quantity = 0) \/ (quantity > MBREG_N_READ_MAX)
             THEN Ret(MB_ILLEGAL_DATA_VAL, s, res, << >>, "mbfn_read_regs")
             ELSE IF mbreg_find_desc(regs, start_addr) = NULL
             THEN Ret(MB_ILLEGAL_DATA_ADDR, s, res, << >>, "mbfn_read_regs")
             ELSE Ret(MB_OK, s,
                      res \o << (quantity * 2) % 256 >>
                          \o read_regs_words(regs, start_addr, quantity, 0),
                      << >>, "mbfn_read_regs")

(***************************************************************************)
(* mbfile.c                                                                *)
(***************************************************************************)
\* a file descriptor: its number and its records, a register table
File(file_no, records) == [ file_no |-> file_no, records |-> records ]

\* a binary search that never looks to the left of the middle
RECURSIVE mbfile_bsearch_right_only(_, _, _, _)
mbfile_bsearch_right_only(files, l, r, file_no) ==
    IF l > r THEN NULL
    ELSE LET m == l + (r - l) \div 2
             file == At(files, m)
         IN  IF file.file_no = file_no THEN file
             ELSE IF file.file_no < file_no
                  THEN mbfile_bsearch_right_only(files, m + 1, r, file_no)
             ELSE NULL

\* binary search of mbfile_find over table indices l..r (0-based)
RECURSIVE mbfile_bsearch(_, _, _, _)
mbfile_bsearch(files, l, r, file_no) ==
    IF l > r THEN NULL
    ELSE LET m == l + (r - l) \div 2
             file == At(files, m)
         IN  IF file.file_no = file_no THEN file
             ELSE IF file.file_no < file_no THEN mbfile_bsearch(files, m + 1, r, file_no)
             ELSE IF m = 0 THEN NULL
             ELSE mbfile_bsearch(files, l, m - 1, file_no)

\* linear scan of mbfile_find from index i
RECURSIVE mbfile_lsearch(_, _, _)
mbfile_lsearch(files, i, file_no) ==
    IF i >= Len(files) THEN NULL
    ELSE IF At(files, i).file_no = file_no THEN At(files, i)
    ELSE mbfile_lsearch(files, i + 1, file_no)

mbfile_find(files, file_no) ==
    IF files.null \/ (Len(files.d) = 0) THEN NULL
    ELSE IF Len(files.d) > BSEARCH_THRESHOLD
         THEN mbfile_bsearch(files.d, 0, Len(files.d) - 1, file_no)
         ELSE mbfile_lsearch(files.d, 0, file_no)

MBFILE_READ_OK == 0
MBFILE_READ_ILLEGAL_ADDR == 1
MBFILE_READ_DEVICE_ERR == 2

MBREG_READ_DEV_FAIL == "dev_fail"
MBREG_READ_LOCKED == "locked"
MBREG_READ_NO_ACCESS == "no_access"
MBREG_READ_N == "n"

\* mbreg_read of a one-word register: the words produced (n of them, in
\* big-endian bytes), or LOCKED, NO_ACCESS, DEV_FAIL
mbreg_read(reg, s, env) ==
    IF reg.rlock_cb /\ env.rlock
    THEN [ st |-> MBREG_READ_LOCKED, n |-> 0, words |-> << >> ]
    ELSE CASE reg.r = "val" ->
                  [ st |-> MBREG_READ_N, n |-> 1, words |-> u16tobe(reg.val) ]
           [] reg.r = "ptr" ->
                  [ st |-> MBREG_READ_N, n |-> 1, words |-> u16tobe(s.reg_mem[reg.ix]) ]
           [] reg.r = "fn" ->
                  IF env.rfn_st # MB_OK
                  THEN [ st |-> MBREG_READ_DEV_FAIL, n |-> 0, words |-> << >> ]
                  ELSE [ st |-> MBREG_READ_N, n |-> 1, words |-> u16tobe(env.rfn_val) ]
           [] OTHER -> [ st |-> MBREG_READ_NO_ACCESS, n |-> 0, words |-> << >> ]

\* mbreg_write_allowed of a one-word register: the number of registers the
\* write would cover, 0 if it is not allowed
mbreg_write_allowed(reg, env) ==
    IF reg.w = "none" THEN 0
    ELSE IF reg.wlock_cb /\ env.wlock THEN 0
    ELSE 1

\* mbreg_write of a one-word register: the status, the storage after the
\* write, the number of registers written, the callbacks invoked
mbreg_write(reg, value, s, env) ==
    IF reg = NULL THEN [ st |-> MB_DEV_FAIL, s |-> s, n |-> 0, cbs |-> << >> ]
    ELSE CASE reg.w = "ptr" ->
                  [ st |-> MB_OK, s |-> [ s EXCEPT !.reg_mem[reg.ix] = value ],
                    n |-> 1, cbs |-> << >> ]
           [] reg.w = "fn" ->
                  [ st |-> env.wfn_st, s |-> s, n |-> 1,
                    cbs |-> Cb("reg.write.fn", reg.address, value) ]
           [] OTHER -> [ st |-> MB_DEV_FAIL, s |-> s, n |-> 0, cbs |-> << >> ]

\* a response buffer, or no buffer at all (res == NULL)
ResBuf(p) == [ null |-> FALSE, p |-> p ]

NoResBuf == [ null |-> TRUE, p |-> << >> ]

\* bytes stored at res->p + res->size, if there is a buffer
res_put(res, bytes) == IF res.null THEN res ELSE [ res EXCEPT !.p = @ \o bytes ]

\* the loop of mbfile_read over the offsets reg_offs .. record_length-1; a
\* range of more than one offset is walked as its lower half followed, if
\* no read failed, by its upper half
RECURSIVE mbfile_read_loop(_, _, _, _, _, _, _)
mbfile_read_loop(file, record_no, record_length, reg_offs, res, s, env) ==
    IF reg_offs >= record_length THEN [ st |-> MBFILE_READ_OK, p |-> res.p ]
    ELSE IF record_length - reg_offs > 1
    THEN LET mid == reg_offs + ((record_length - reg_offs) \div 2)
             lower == mbfile_read_loop(file, record_no, mid, reg_offs, res, s, env)
         IN  IF lower.st # MBFILE_READ_OK THEN lower
             ELSE mbfile_read_loop(file, record_no, record_length, mid,
                                   [ res EXCEPT !.p = lower.p ], s, env)
    ELSE LET reg == mbreg_find_desc(file.records, (record_no + reg_offs) % 65536) IN
         IF reg # NULL
         THEN CASE mbreg_read(reg, s, env).st = MBREG_READ_DEV_FAIL ->
                       [ st |-> MBFILE_READ_DEVICE_ERR, p |-> res.p ]
                [] mbreg_read(reg, s, env).st \in { MBREG_READ_LOCKED, MBREG_READ_NO_ACCESS } ->
                       mbfile_read_loop(file, record_no, record_length, reg_offs + 1,
                                        res_put(res, << 0, 0 >>), s, env)
                [] OTHER ->
                       mbfile_read_loop(file, record_no, record_length,
                                        reg_offs + mbreg_read(reg, s, env).n,
                                        res_put(res, mbreg_read(reg, s, env).words), s, env)
         ELSE mbfile_read_loop(file, record_no, record_length, reg_offs + 1,
                               res_put(res, << 0, 0 >>), s, env)

\* mbfile_read without the test of the first record
mbfile_read_first_unchecked(file, record_no, record_length, res, s, env) ==
    mbfile_read_loop(file, record_no, record_length, 0, res, s, env)

mbfile_read(file, record_no, record_length, res, s, env) ==
    IF mbreg_find_desc(file.records, record_no) = NULL
    THEN [ st |-> MBFILE_READ_ILLEGAL_ADDR, p |-> res.p ]
    ELSE mbfile_read_loop(file, record_no, record_length, 0, res, s, env)

\* mbfile_write_allowed that looks at the first word only
mbfile_write_allowed_first_word(file, record_no, record_length, reg_offs, env) ==
    IF reg_offs >= record_length THEN MB_OK
    ELSE IF mbreg_find_desc(file.records, (record_no + reg_offs) % 65536) = NULL
    THEN MB_ILLEGAL_DATA_ADDR
    ELSE IF mbreg_write_allowed(
                mbreg_find_desc(file.records, (record_no + reg_offs) % 65536), env) = 0
    THEN MB_ILLEGAL_DATA_ADDR
    ELSE MB_OK

\* mbfile_write_allowed from offset reg_offs on
RECURSIVE mbfile_write_allowed(_, _, _, _, _)
mbfile_write_allowed(file, record_no, record_length, reg_offs, env) ==
    IF reg_offs >= record_length THEN MB_OK
    ELSE LET reg == mbreg_find_desc(file.records, (record_no + reg_offs) % 65536) IN
         IF reg = NULL THEN MB_ILLEGAL_DATA_ADDR
         ELSE IF mbreg_write_allowed(reg, env) = 0 THEN MB_ILLEGAL_DATA_ADDR
         ELSE mbfile_write_allowed(file, record_no, record_length,
                                   reg_offs + mbreg_write_allowed(reg, env), env)

\* the hook a written register ends with
reg_post_write(reg) ==
    IF reg.post_write_cb THEN Cb("reg.post_write_cb", reg.address, 0) ELSE << >>

\* mbfile_write from offset reg_offs on; val is req + p
RECURSIVE mbfile_write(_, _, _, _, _, _, _, _, _)
mbfile_write(file, record_no, record_length, req, p, reg_offs, s, env, cbs) ==
    IF reg_offs >= record_length THEN [ st |-> MB_OK, s |-> s, cbs |-> cbs ]
    ELSE LET reg == mbreg_find_desc(file.records, (record_no + reg_offs) % 65536)
             w == mbreg_write(reg, betou16(req, p + reg_offs * 2), s, env)
         IN  IF w.st # MB_OK THEN [ st |-> w.st, s |-> w.s, cbs |-> cbs \o w.cbs ]
             ELSE IF w.n = 0 THEN [ st |-> MB_DEV_FAIL, s |-> w.s, cbs |-> cbs \o w.cbs ]
             ELSE mbfile_write(file, record_no, record_length, req, p, reg_offs + w.n,
                               w.s, env, cbs \o w.cbs \o reg_post_write(reg))

(***************************************************************************)
(* mbfn_files.c                                                            *)
(***************************************************************************)
READ_REQ_HEADER_SIZE == 2
READ_SUB_REQ_SIZE == 7
READ_REQ_MIN_SIZE == READ_REQ_HEADER_SIZE + READ_SUB_REQ_SIZE
READ_REQ_MAX_BYTE_COUNT == 245
READ_SUB_RESP_HEADER_SIZE == 2
READ_RESP_MAX_BYTE_COUNT == 245
REF_TYPE == 6
MAX_REC_NO == 9999

\* sub-request i of a read request: p = req + 2 + 7i
read_sub_req(req, i) ==
    LET p == READ_REQ_HEADER_SIZE + i * READ_SUB_REQ_SIZE IN
    [ ref_type |-> At(req, p), file_no |-> betou16(req, p + 1),
      record_no |-> betou16(req, p + 3), record_length |-> betou16(req, p + 5) ]

\* a validation loop that takes file number 0 for a bad value, as an earlier
\* revision of mbfn_file_read did
RECURSIVE read_sub_reqs_validate_file0_as_val(_, _, _, _, _)
read_sub_reqs_validate_file0_as_val(c, req, n_sub_reqs, i, resp_byte_count) ==
    IF i >= n_sub_reqs THEN [st |-> MB_OK, resp_byte_count |-> resp_byte_count]
    ELSE LET sub == read_sub_req(req, i) IN
         IF sub.ref_type # REF_TYPE
         THEN [st |-> MB_ILLEGAL_DATA_VAL, resp_byte_count |-> resp_byte_count]
         ELSE IF sub.file_no = 0
         THEN [st |-> MB_ILLEGAL_DATA_VAL, resp_byte_count |-> resp_byte_count]
         ELSE IF ~c.allow_ext_file_recs /\ (sub.record_no > MAX_REC_NO)
         THEN [st |-> MB_ILLEGAL_DATA_ADDR, resp_byte_count |-> resp_byte_count]
         ELSE IF sub.record_length = 0
         THEN [st |-> MB_ILLEGAL_DATA_VAL, resp_byte_count |-> resp_byte_count]
         ELSE read_sub_reqs_validate_file0_as_val(c, req, n_sub_reqs, i + 1,
                  resp_byte_count + READ_SUB_RESP_HEADER_SIZE + sub.record_length * 2)

\* the validation loop of mbfn_file_read from sub-request i on
RECURSIVE read_sub_reqs_validate(_, _, _, _, _)
read_sub_reqs_validate(c, req, n_sub_reqs, i, resp_byte_count) ==
    IF i >= n_sub_reqs THEN [st |-> MB_OK, resp_byte_count |-> resp_byte_count]
    ELSE LET sub == read_sub_req(req, i) IN
         IF sub.ref_type # REF_TYPE
         THEN [st |-> MB_ILLEGAL_DATA_VAL, resp_byte_count |-> resp_byte_count]
         ELSE IF sub.file_no = 0
         THEN [st |-> MB_ILLEGAL_DATA_ADDR, resp_byte_count |-> resp_byte_count]
         ELSE IF ~c.allow_ext_file_recs /\ (sub.record_no > MAX_REC_NO)
         THEN [st |-> MB_ILLEGAL_DATA_ADDR, resp_byte_count |-> resp_byte_count]
         ELSE IF sub.record_length = 0
         THEN [st |-> MB_ILLEGAL_DATA_VAL, resp_byte_count |-> resp_byte_count]
         ELSE read_sub_reqs_validate(c, req, n_sub_reqs, i + 1,
                  resp_byte_count + READ_SUB_RESP_HEADER_SIZE + sub.record_length * 2)

\* a sub-response header whose length byte counts the data only
sub_resp_header_data_only(record_length) == << (record_length * 2) % 256, REF_TYPE >>

\* the header of a sub-response: file response length and reference type
sub_resp_header(record_length) == << (1 + record_length * 2) % 256, REF_TYPE >>

\* the read loop of mbfn_file_read from sub-request i on; p is the response
RECURSIVE read_sub_reqs_loop(_, _, _, _, _, _, _)
read_sub_reqs_loop(c, req, n_sub_reqs, i, p, s, env) ==
    IF i >= n_sub_reqs THEN [st |-> MB_OK, p |-> p]
    ELSE LET sub == read_sub_req(req, i)
             file == mbfile_find(c.files, sub.file_no)
         IN  IF file = NULL THEN [st |-> MB_ILLEGAL_DATA_ADDR, p |-> p]
             ELSE LET r == mbfile_read(file, sub.record_no, sub.record_length,
                                       ResBuf(p \o sub_resp_header(sub.record_length)),
                                       s, env)
                  IN  CASE r.st = MBFILE_READ_OK ->
                               read_sub_reqs_loop(c, req, n_sub_reqs, i + 1, r.p, s, env)
                        [] r.st = MBFILE_READ_ILLEGAL_ADDR ->
                               [st |-> MB_ILLEGAL_DATA_ADDR, p |-> r.p]
                        [] OTHER -> [st |-> MB_DEV_FAIL, p |-> r.p]

\* mbfn_file_read without the test of the response byte count
mbfn_file_read_unbounded(c, s, req, env) ==
    LET res == << At(req, 0) >> IN
    IF At(req, 0) # MBFC_READ_FILE_RECORD
    THEN Ret(MB_DEV_FAIL, s, res, << >>, "mbfn_file_read")
    ELSE IF Len(req) < READ_REQ_MIN_SIZE
    THEN Ret(MB_ILLEGAL_DATA_VAL, s, res, << >>, "mbfn_file_read")
    ELSE LET byte_count == At(req, 1) IN
         IF (byte_count < READ_SUB_REQ_SIZE)
              \/ (byte_count > READ_REQ_MAX_BYTE_COUNT)
              \/ (byte_count # Len(req) - READ_REQ_HEADER_SIZE)
              \/ (byte_count % READ_SUB_REQ_SIZE # 0)
         THEN Ret(MB_ILLEGAL_DATA_VAL, s, res, << >>, "mbfn_file_read")
         ELSE LET v == read_sub_reqs_validate(c, req, byte_count \div READ_SUB_REQ_SIZE,
                                              0, 0)
              IN  IF v.st # MB_OK THEN Ret(v.st, s, res, << >>, "mbfn_file_read")
                  ELSE LET r == read_sub_reqs_loop(c, req,
                                    byte_count \div READ_SUB_REQ_SIZE, 0,
                                    res \o << v.resp_byte_count % 256 >>, s, env)
                       IN  Ret(r.st, s, r.p, << >>, "mbfn_file_read")

\* FC 0x14
mbfn_file_read(c, s, req, env) ==
    LET res == << At(req, 0) >> IN
    IF At(req, 0) # MBFC_READ_FILE_RECORD
    THEN Ret(MB_DEV_FAIL, s, res, << >>, "mbfn_file_read")
    ELSE IF Len(req) < READ_REQ_MIN_SIZE
    THEN Ret(MB_ILLEGAL_DATA_VAL, s, res, << >>, "mbfn_file_read")
    ELSE LET byte_count == At(req, 1) IN
         IF (byte_count < READ_SUB_REQ_SIZE)
              \/ (byte_count > READ_REQ_MAX_BYTE_COUNT)
              \/ (byte_count # Len(req) - READ_REQ_HEADER_SIZE)
              \/ (byte_count % READ_SUB_REQ_SIZE # 0)
         THEN Ret(MB_ILLEGAL_DATA_VAL, s, res, << >>, "mbfn_file_read")
         ELSE LET v == read_sub_reqs_validate(c, req, byte_count \div READ_SUB_REQ_SIZE,
                                              0, 0)
              IN  IF v.st # MB_OK THEN Ret(v.st, s, res, << >>, "mbfn_file_read")
                  ELSE IF v.resp_byte_count > READ_RESP_MAX_BYTE_COUNT
                  THEN Ret(MB_ILLEGAL_DATA_VAL, s, res, << >>, "mbfn_file_read")
                  ELSE LET r == read_sub_reqs_loop(c, req,
                                    byte_count \div READ_SUB_REQ_SIZE, 0,
                                    res \o << v.resp_byte_count % 256 >>, s, env)
                       IN  Ret(r.st, s, r.p, << >>, "mbfn_file_read")

MBFC_WRITE_FILE_RECORD == 21
MBPDU_DATA_SIZE_MAX == 252
WRITE_REQ_HEADER_SIZE == 2
WRITE_SUB_REQ_HEADER_SIZE == 7
WRITE_SUB_REQ_MIN_SIZE == WRITE_SUB_REQ_HEADER_SIZE + 2
WRITE_REQ_MIN_SIZE == WRITE_REQ_HEADER_SIZE + WRITE_SUB_REQ_MIN_SIZE
WRITE_REQ_MAX_BYTE_COUNT == MBPDU_DATA_SIZE_MAX - WRITE_REQ_HEADER_SIZE

\* the header of the write sub-request at req + 2 + offs
write_sub_req(req, offs) ==
    LET p == WRITE_REQ_HEADER_SIZE + offs IN
    [ ref_type |-> At(req, p), file_no |-> betou16(req, p + 1),
      record_no |-> betou16(req, p + 3), record_length |-> betou16(req, p + 5) ]

\* a validation loop that reports record data longer than the request as an
\* addressing fault
RECURSIVE write_sub_reqs_validate_len_as_addr(_, _, _, _, _)
write_sub_reqs_validate_len_as_addr(c, req, byte_count, offs, env) ==
    IF offs >= byte_count THEN MB_OK
    ELSE LET sub == write_sub_req(req, offs)
             file == mbfile_find(c.files, sub.file_no)
         IN  IF byte_count - offs < WRITE_SUB_REQ_MIN_SIZE THEN MB_ILLEGAL_DATA_VAL
             ELSE IF sub.ref_type # REF_TYPE THEN MB_ILLEGAL_DATA_VAL
             ELSE IF sub.file_no = 0 THEN MB_ILLEGAL_DATA_ADDR
             ELSE IF ~c.allow_ext_file_recs /\ (sub.record_no > MAX_REC_NO)
             THEN MB_ILLEGAL_DATA_ADDR
             ELSE IF sub.record_length = 0 THEN MB_ILLEGAL_DATA_VAL
             ELSE IF sub.record_length * 2
                       > (byte_count - offs) - WRITE_SUB_REQ_HEADER_SIZE
             THEN MB_ILLEGAL_DATA_ADDR
             ELSE IF file = NULL THEN MB_ILLEGAL_DATA_ADDR
             ELSE IF mbfile_write_allowed(file, sub.record_no, sub.record_length,
                                          0, env) # MB_OK
             THEN mbfile_write_allowed(file, sub.record_no, sub.record_length, 0, env)
             ELSE write_sub_reqs_validate_len_as_addr(c, req, byte_count,
                      offs + WRITE_SUB_REQ_HEADER_SIZE + sub.record_length * 2, env)

\* the validation loop of mbfn_file_write from offset offs = p - base on
RECURSIVE write_sub_reqs_validate(_, _, _, _, _)
write_sub_reqs_validate(c, req, byte_count, offs, env) ==
    IF offs >= byte_count THEN MB_OK
    ELSE LET sub == write_sub_req(req, offs)
             file == mbfile_find(c.files, sub.file_no)
         IN  IF byte_count - offs < WRITE_SUB_REQ_MIN_SIZE THEN MB_ILLEGAL_DATA_VAL
             ELSE IF sub.ref_type # REF_TYPE THEN MB_ILLEGAL_DATA_VAL
             ELSE IF sub.file_no = 0 THEN MB_ILLEGAL_DATA_ADDR
             ELSE IF ~c.allow_ext_file_recs /\ (sub.record_no > MAX_REC_NO)
             THEN MB_ILLEGAL_DATA_ADDR
             ELSE IF (sub.record_length = 0)
                      \/ (sub.record_length * 2
                            > (byte_count - offs) - WRITE_SUB_REQ_HEADER_SIZE)
             THEN MB_ILLEGAL_DATA_VAL
             ELSE IF file = NULL THEN MB_ILLEGAL_DATA_ADDR
             ELSE IF mbfile_write_allowed(file, sub.record_no, sub.record_length,
                                          0, env) # MB_OK
             THEN mbfile_write_allowed(file, sub.record_no, sub.record_length, 0, env)
             ELSE write_sub_reqs_validate(c, req, byte_count,
                      offs + WRITE_SUB_REQ_HEADER_SIZE + sub.record_length * 2, env)

\* the bytes req[a .. a+n-1]
req_bytes(req, a, n) == [ k \in 1..n |-> At(req, a + k - 1) ]

\* a sub-response that echoes the header and leaves the record data out
write_sub_resp_header_only(req, offs, sub) ==
    << REF_TYPE >> \o u16tobe(sub.file_no) \o u16tobe(sub.record_no)
        \o u16tobe(sub.record_length)

\* the sub-response of a written sub-request: its header and its data
write_sub_resp(req, offs, sub) ==
    << REF_TYPE >> \o u16tobe(sub.file_no) \o u16tobe(sub.record_no)
        \o u16tobe(sub.record_length)
        \o req_bytes(req, WRITE_REQ_HEADER_SIZE + offs + WRITE_SUB_REQ_HEADER_SIZE,
                     sub.record_length * 2)

\* the write loop of mbfn_file_write from offset offs on; h carries the
\* storage, the response and the callbacks so far
RECURSIVE write_sub_reqs_loop(_, _, _, _, _, _)
write_sub_reqs_loop(c, req, byte_count, offs, env, h) ==
    IF offs >= byte_count THEN h
    ELSE LET sub == write_sub_req(req, offs)
             w == mbfile_write(mbfile_find(c.files, sub.file_no), sub.record_no,
                               sub.record_length, req,
                               WRITE_REQ_HEADER_SIZE + offs + WRITE_SUB_REQ_HEADER_SIZE,
                               0, h.s, env, h.cbs)
         IN  IF w.st # MB_OK THEN [ h EXCEPT !.st = w.st, !.s = w.s, !.cbs = w.cbs ]
             ELSE write_sub_reqs_loop(c, req, byte_count,
                      offs + WRITE_SUB_REQ_HEADER_SIZE + sub.record_length * 2, env,
                      [ h EXCEPT !.s = w.s, !.cbs = w.cbs,
                                 !.res = @ \o write_sub_resp(req, offs, sub) ])

commit_regs_write(c) ==
    IF c.has_commit_regs_write THEN Cb("commit_regs_write_cb", 0, 0) ELSE << >>

\* the end of mbfn_file_write: the commit callback after a complete write loop
file_write_done(c, h) ==
    IF h.st # MB_OK THEN h ELSE [ h EXCEPT !.cbs = @ \o commit_regs_write(c) ]

\* FC 0x15
mbfn_file_write(c, s, req, env) ==
    LET res == << At(req, 0) >> IN
    IF At(req, 0) # MBFC_WRITE_FILE_RECORD
    THEN Ret(MB_DEV_FAIL, s, res, << >>, "mbfn_file_write")
    ELSE IF Len(req) < WRITE_REQ_MIN_SIZE
    THEN Ret(MB_ILLEGAL_DATA_VAL, s, res, << >>, "mbfn_file_write")
    ELSE IF (At(req, 1) < WRITE_SUB_REQ_MIN_SIZE)
              \/ (At(req, 1) > WRITE_REQ_MAX_BYTE_COUNT)
              \/ (At(req, 1) # Len(req) - WRITE_REQ_HEADER_SIZE)
    THEN Ret(MB_ILLEGAL_DATA_VAL, s, res, << >>, "mbfn_file_write")
    ELSE IF write_sub_reqs_validate(c, req, At(req, 1), 0, env) # MB_OK
    THEN Ret(write_sub_reqs_validate(c, req, At(req, 1), 0, env), s, res, << >>,
             "mbfn_file_write")
    ELSE file_write_done(c,
             write_sub_reqs_loop(c, req, At(req, 1), 0, env,
                 Ret(MB_OK, s, res \o << At(req, 1) >>, << >>, "mbfn_file_write")))

(***************************************************************************)
(* mbpdu.c                                                                 *)
(***************************************************************************)
\* the tail of handle(): the host fallback, else ILLEGAL_FN
handle_fallback(c, s, req, env) ==
    IF c.has_handle_fn
    THEN Ret(env.fn_st, s, << At(req, 0) >> \o env.fn_body,
             Cb("handle_fn_cb", 0, At(req, 0)), "handle_fn_cb")
    ELSE Ret(MB_ILLEGAL_FN, s, << At(req, 0) >>, << >>, "handle")

\* handle(): switch on the function code.  The register tables and
\* read_exception_status_cb are NULL in every configuration of this model,
\* so the cases that test them break to the fallback.
handle(c, s, req, env) ==
    LET fc == At(req, 0) IN
    CASE fc = MBFC_READ_COILS ->
             IF ~c.coils.null THEN mbfn_read_coils(s, c.coils, req, env)
             ELSE handle_fallback(c, s, req, env)
      [] fc = MBFC_READ_DISC_INPUTS ->
             IF ~c.disc_inputs.null THEN mbfn_read_coils(s, c.disc_inputs, req, env)
             ELSE handle_fallback(c, s, req, env)
      [] fc = MBFC_READ_HOLDING_REGS ->
             IF ~c.hold_regs.null THEN mbfn_read_regs(s, c.hold_regs, req)
             ELSE handle_fallback(c, s, req, env)
      [] fc = MBFC_WRITE_SINGLE_COIL ->
             IF ~c.coils.null THEN mbfn_write_coil(c, s, c.coils, req, env)
             ELSE handle_fallback(c, s, req, env)
      [] fc = MBFC_DIAGNOSTICS -> mbfn_digs(c, s, req, env)
      [] fc = MBFC_COMM_EVENT_COUNTER -> mbfn_comm_event_counter(s, req)
      [] fc = MBFC_COMM_EVENT_LOG -> mbfn_comm_event_log(s, req)
      [] fc = MBFC_WRITE_MULTIPLE_COILS ->
             IF ~c.coils.null THEN mbfn_write_coils(c, s, c.coils, req, env)
             ELSE handle_fallback(c, s, req, env)
      [] OTHER -> handle_fallback(c, s, req, env)

\* listen_only_gate that only drops the requests too short to name a
\* sub-function
listen_only_gate_short(s, req) == s.is_listen_only /\ (Len(req) < 3)

\* listen_only_gate without the test of the function code
listen_only_gate_any_fc(s, req) ==
    s.is_listen_only
    /\ ((Len(req) < 3)
        \/ (betou16(req, 1) # MBFC_DIGS_RESTART_COMMS_OPT))

\* the listen-only gate of mbpdu_handle_req
listen_only_gate(s, req) ==
    s.is_listen_only
    /\ ((Len(req) < 3)
        \/ (At(req, 0) # MBFC_DIAGNOSTICS)
        \/ (betou16(req, 1) # MBFC_DIGS_RESTART_COMMS_OPT))

\* the exception flags of the send event
send_event_flags(status) ==
    LET e1 == IF (status = MB_ILLEGAL_FN) \/ (status = MB_ILLEGAL_DATA_ADDR)
                 \/ (status = MB_ILLEGAL_DATA_VAL)
              THEN BitOr(MB_COMM_EVENT_IS_SEND, MB_COMM_EVENT_SEND_READ_EX)
              ELSE MB_COMM_EVENT_IS_SEND
        e2 == IF status = MB_DEV_FAIL THEN BitOr(e1, MB_COMM_EVENT_SEND_ABORT_EX) ELSE e1
        e3 == IF (status = MB_ACK) \/ (status = MB_BUSY)
              THEN BitOr(e2, MB_COMM_EVENT_SEND_BUSY_EX) ELSE e2
    IN  IF status = MB_NEG_ACK THEN BitOr(e3, MB_COMM_EVENT_SEND_NAK_EX) ELSE e3

\* count_result without the exclusion of FC 0x08, 0x0B and 0x0C
count_result_all_fc(s, req, status) ==
    [ s EXCEPT
        !.comm_event_counter = IF status = MB_OK THEN @ + 1 ELSE @,
        !.exception_counter = IF status # MB_OK THEN @ + 1 ELSE @,
        !.nak_counter = IF status = MB_NEG_ACK THEN @ + 1 ELSE @,
        !.busy_counter = IF status = MB_BUSY THEN @ + 1 ELSE @ ]

\* the diagnostic counters incremented after the handler has run
count_result(s, req, status) ==
    [ s EXCEPT
        !.comm_event_counter =
            IF (status = MB_OK) /\ (At(req, 0) # MBFC_DIAGNOSTICS)
               /\ (At(req, 0) # MBFC_COMM_EVENT_COUNTER)
               /\ (At(req, 0) # MBFC_COMM_EVENT_LOG)
            THEN @ + 1 ELSE @,
        !.exception_counter = IF status # MB_OK THEN @ + 1 ELSE @,
        !.nak_counter = IF status = MB_NEG_ACK THEN @ + 1 ELSE @,
        !.busy_counter = IF status = MB_BUSY THEN @ + 1 ELSE @ ]

\* what a call of mbpdu_handle_req leaves: the instance, the returned length,
\* the response bytes p[0 .. size-1], and for the history the path taken
\* ("invalid", "gated", "handled"), the handler status (-1 if none ran), the
\* callbacks invoked and the handler that ran
PduOut(s, len, res, path, st, cbs, fn) ==
    [s |-> s, len |-> len, res |-> res, path |-> path, st |-> st, cbs |-> cbs, fn |-> fn]

\* an exception response that keeps the function code as received
exception_res_plain_fc(req, status) == << At(req, 0), status >>

\* the exception response: p[0] |= MB_ERR_FLG, p[1] = status, size = 2
exception_res(req, status) == << BitOr(At(req, 0), MB_ERR_FLG), status >>

\* the send event of a processed request
send_event_of(was_listen_only, status) ==
    IF was_listen_only
    THEN BitOr(send_event_flags(status), MB_COMM_EVENT_SEND_LISTEN_ONLY)
    ELSE send_event_flags(status)

\* a returned length that only looks at the mode at entry
pdu_ret_len_entry(is_listen_only, was_listen_only, size) ==
    IF was_listen_only THEN 0 ELSE size

\* the length mbpdu_handle_req returns
pdu_ret_len(is_listen_only, was_listen_only, size) ==
    IF is_listen_only \/ was_listen_only THEN 0 ELSE size

\* mbpdu_handle_req once the handler has returned h: build the exception
\* response, log the send event, count the result, pick the returned length
pdu_finish(was_listen_only, req, h) ==
    PduOut(count_result(mb_add_comm_event(h.s, send_event_of(was_listen_only, h.st)),
                        req, h.st),
           pdu_ret_len(h.s.is_listen_only, was_listen_only,
                       IF h.st # MB_OK THEN 2 ELSE Len(h.res)),
           IF h.st # MB_OK THEN exception_res(req, h.st) ELSE h.res,
           "handled", h.st, h.cbs, h.fn)

\* pdu_process that reports the mode the handler has left
pdu_process_mode_after(c, s, req, env) ==
    LET h == handle(c, [s EXCEPT !.msg_counter = @ + 1], req, env)
    IN  pdu_finish(h.s.is_listen_only, req, h)

\* mbpdu_handle_req after the gate: count the message, run the handler
pdu_process(c, s, req, env) ==
    pdu_finish(s.is_listen_only, req,
               handle(c, [s EXCEPT !.msg_counter = @ + 1], req, env))

\* mbpdu_handle_req; nonnull: inst, req and res are all non-NULL
mbpdu_handle_req(c, s, req, nonnull, env) ==
    IF ~nonnull THEN PduOut(s, 0, << >>, "invalid", -1, << >>, "none")
    ELSE IF Len(req) < 1 THEN PduOut(s, 0, << >>, "invalid", -1, << >>, "none")
    ELSE IF listen_only_gate(s, req)
         THEN PduOut(mb_add_comm_event(s, BitOr(MB_COMM_EVENT_IS_SEND,
                                                MB_COMM_EVENT_SEND_LISTEN_ONLY)),
                     0, << >>, "gated", -1, << >>, "none")
    ELSE pdu_process(c, s, req, env)

\* handle() of the revision that serves the file records: FC 0x14 and FC 0x15
\* go to their handlers, every other function code as before
handle_files(c, s, req, env) ==
    CASE At(req, 0) = MBFC_READ_FILE_RECORD -> mbfn_file_read(c, s, req, env)
      [] At(req, 0) = MBFC_WRITE_FILE_RECORD -> mbfn_file_write(c, s, req, env)
      [] OTHER -> handle(c, s, req, env)

\* mbpdu_handle_req of that revision, for non-NULL arguments
mbpdu_handle_file_req(c, s, req, env) ==
    IF Len(req) < 1 THEN PduOut(s, 0, << >>, "invalid", -1, << >>, "none")
    ELSE IF listen_only_gate(s, req)
         THEN PduOut(mb_add_comm_event(s, BitOr(MB_COMM_EVENT_IS_SEND,
                                                MB_COMM_EVENT_SEND_LISTEN_ONLY)),
                     0, << >>, "gated", -1, << >>, "none")
    ELSE pdu_finish(s.is_listen_only, req,
                    handle_files(c, [s EXCEPT !.msg_counter = @ + 1], req, env))

(***************************************************************************)
(* mbadu_ascii.c                                                           *)
(***************************************************************************)
MBADU_ASCII_SIZE_MIN == 11
MBADU_ASCII_SIZE_MAX == 513
MBADU_ASCII_START_CHAR == 58
MBADU_ADDR_BROADCAST == 0
MBADU_ADDR_DEFAULT_RESP == 248
CR == 13

isxdigit(ch) ==
    ((ch >= 48) /\ (ch <= 57)) \/ ((ch >= 65) /\ (ch <= 70)) \/ ((ch >= 97) /\ (ch <= 102))

xtoi(ch) ==
    IF (ch >= 48) /\ (ch <= 57) THEN ch - 48
    ELSE IF (ch >= 65) /\ (ch <= 70) THEN ch - 65 + 10
    ELSE IF (ch >= 97) /\ (ch <= 102) THEN ch - 97 + 10
    ELSE -1

hex_digits == << 48, 49, 50, 51, 52, 53, 54, 55, 56, 57, 65, 66, 67, 68, 69, 70 >>


\* u8tox writing the low nibble first
u8tox_low_nibble_first(v) == << At(hex_digits, v % 16), At(hex_digits, (v \div 16) % 16) >>

u8tox(v) == << At(hex_digits, (v \div 16) % 16), At(hex_digits, v % 16) >>

\* sum of data[0 .. len-1], added up in halves
RECURSIVE byte_sum(_, _)
byte_sum(data, len) ==
    IF len = 0 THEN 0
    ELSE IF len = 1 THEN At(data, 0)
    ELSE byte_sum(SubSeq(data, 1, len \div 2), len \div 2)
            + byte_sum(SubSeq(data, (len \div 2) + 1, len), len - (len \div 2))


\* calc_lrc as the one's complement of the sum
calc_lrc_ones_complement(data, len) == 255 - (byte_sum(data, len) % 256)

\* (uint8_t)(-sum)
calc_lrc(data, len) == (256 - (byte_sum(data, len) % 256)) % 256

\* the hex digits of bin[i ..]: two characters for each byte
to_hex(bin, i) ==
    [ k \in 1..(IF i >= Len(bin) THEN 0 ELSE 2 * (Len(bin) - i)) |->
        At(u8tox(At(bin, i + ((k - 1) \div 2))), (k - 1) % 2) ]

\* ':' hex(bin) hex(lrc) CR delimiter
ascii_frame(bin, delimiter) ==
    << MBADU_ASCII_START_CHAR >> \o to_hex(bin, 0) \o u8tox(calc_lrc(bin, Len(bin)))
        \o << CR, delimiter >>

prep_res(s, bin_res) == ascii_frame(bin_res, s.ascii_delimiter)

\* the shape test against the default delimiter LF
bad_shape_default_delimiter(s, req) ==
    (At(req, 0) # MBADU_ASCII_START_CHAR)
    \/ (At(req, Len(req) - 2) # CR)
    \/ (At(req, Len(req) - 1) # 10)
    \/ ((Len(req) - 1) % 2 # 0)

\* the shape test: start char, CR, delimiter, odd length
bad_shape(s, req) ==
    (At(req, 0) # MBADU_ASCII_START_CHAR)
    \/ (At(req, Len(req) - 2) # CR)
    \/ (At(req, Len(req) - 1) # s.ascii_delimiter)
    \/ ((Len(req) - 1) % 2 # 0)

\* some character of req[1 .. req_len-3] is not a hex digit
bad_hex(req) == \E i \in 1..(Len(req) - 3) : ~isxdigit(At(req, i))

\* the binary bytes of the hex characters req[i], req[i+1], ... up to the CR
to_bin(req, i) ==
    [ k \in 1..(IF i >= Len(req) - 2 THEN 0 ELSE (Len(req) - 1 - i) \div 2) |->
        (xtoi(At(req, i + 2 * (k - 1))) * 16 + xtoi(At(req, i + 2 * (k - 1) + 1))) % 256 ]

\* an address filter that takes the default-response address whether or not
\* enable_def_resp is set
not_addressed_def_resp(c, recv_slave_addr) ==
    (recv_slave_addr # c.slave_addr)
    /\ (recv_slave_addr # MBADU_ADDR_BROADCAST)
    /\ (recv_slave_addr # MBADU_ADDR_DEFAULT_RESP)

\* the address filter: the frame is not for this device
not_addressed(c, recv_slave_addr) ==
    (recv_slave_addr # c.slave_addr)
    /\ (recv_slave_addr # MBADU_ADDR_BROADCAST)
    /\ (~c.enable_def_resp \/ (recv_slave_addr # MBADU_ADDR_DEFAULT_RESP))

\* if (recv_event!=0u) mb_add_comm_event(inst, IS_RECV | recv_event)
add_recv_event(s, recv_event) ==
    IF recv_event # 0
    THEN mb_add_comm_event(s, BitOr(MB_COMM_EVENT_IS_RECV, recv_event))
    ELSE s

\* what a call of mbadu_ascii_handle_req leaves: the instance, the returned
\* frame, and for the history the stage the frame got to ("invalid", "size",
\* "shape", "hex", "lrc", "addr", "dispatched"), the decoded address
\* (-1 if not decoded) and the PDU layer's outcome
AduOut(s, res, adu, addr, bin, p) ==
    [s |-> s, len |-> Len(res), res |-> res, adu |-> adu, addr |-> addr, bin |-> bin,
     pdu_len |-> p.len, pdu_res |-> p.res, path |-> p.path, st |-> p.st,
     cbs |-> p.cbs, fn |-> p.fn]

NoPdu == PduOut(NULL, 0, << >>, "none", -1, << >>, "none")

\* ascii_respond without the test for the broadcast address
ascii_respond_all(req_bin, p) ==
    IF p.len = 0
    THEN AduOut([p.s EXCEPT !.no_resp_counter = @ + 1], << >>, "dispatched",
                At(req_bin, 0), req_bin, p)
    ELSE AduOut(p.s, prep_res(p.s, << At(req_bin, 0) >> \o SubSeq(p.res, 1, p.len)),
                "dispatched", At(req_bin, 0), req_bin, p)

\* mbadu_ascii_handle_req once mbpdu_handle_req has returned p: no response
\* to a broadcast or when the PDU layer returned 0, else the framed response
ascii_respond(req_bin, p) ==
    IF (p.len = 0) \/ (At(req_bin, 0) = MBADU_ADDR_BROADCAST)
    THEN AduOut([p.s EXCEPT !.no_resp_counter = @ + 1], << >>, "dispatched",
                At(req_bin, 0), req_bin, p)
    ELSE AduOut(p.s, prep_res(p.s, << At(req_bin, 0) >> \o SubSeq(p.res, 1, p.len)),
                "dispatched", At(req_bin, 0), req_bin, p)

\* the receive event of a frame for this device
dispatch_recv_event(recv_slave_addr, recv_event) ==
    IF recv_slave_addr = MBADU_ADDR_BROADCAST
    THEN BitOr(recv_event, MB_COMM_EVENT_RECV_BROADCAST)
    ELSE recv_event

\* ascii_dispatch framing the response with the delimiter in force when
\* the request arrived
ascii_dispatch_request_delimiter(c, s, req_bin, recv_event, env) ==
    LET p == mbpdu_handle_req(c,
                 add_recv_event(s, dispatch_recv_event(At(req_bin, 0), recv_event)),
                 SubSeq(req_bin, 2, Len(req_bin) - 1), TRUE, env)
        o == ascii_respond(req_bin, p)
    IN  IF o.len = 0 THEN o
        ELSE [ o EXCEPT !.res = prep_res(s, << At(req_bin, 0) >> \o SubSeq(p.res, 1, p.len)) ]

\* mbadu_ascii_handle_req from the dispatch on: the frame is for this device
ascii_dispatch(c, s, req_bin, recv_event, env) ==
    ascii_respond(req_bin,
        mbpdu_handle_req(c,
            add_recv_event(s, dispatch_recv_event(At(req_bin, 0), recv_event)),
            SubSeq(req_bin, 2, Len(req_bin) - 1), TRUE, env))

\* ascii_checked with the address filter ahead of the LRC check
ascii_checked_addr_first(c, s, req_bin, recv_event, env) ==
    IF not_addressed(c, At(req_bin, 0))
    THEN AduOut(add_recv_event(s, recv_event), << >>, "addr", At(req_bin, 0),
                req_bin, NoPdu)
    ELSE IF At(req_bin, Len(req_bin) - 1) # calc_lrc(req_bin, Len(req_bin) - 1)
    THEN AduOut(mb_add_comm_event(
                    [s EXCEPT !.bus_comm_err_counter = @ + 1],
                    BitOr(MB_COMM_EVENT_IS_RECV,
                          BitOr(recv_event, MB_COMM_EVENT_RECV_COMM_ERR))),
                << >>, "lrc", At(req_bin, 0), req_bin, NoPdu)
    ELSE ascii_dispatch(c, s, req_bin, recv_event, env)

\* mbadu_ascii_handle_req once the frame is decoded to req_bin
ascii_checked(c, s, req_bin, recv_event, env) ==
    IF At(req_bin, Len(req_bin) - 1) # calc_lrc(req_bin, Len(req_bin) - 1)
    THEN AduOut(mb_add_comm_event(
                    [s EXCEPT !.bus_comm_err_counter = @ + 1],
                    BitOr(MB_COMM_EVENT_IS_RECV,
                          BitOr(recv_event, MB_COMM_EVENT_RECV_COMM_ERR))),
                << >>, "lrc", At(req_bin, 0), req_bin, NoPdu)
    ELSE IF not_addressed(c, At(req_bin, 0))
    THEN AduOut(add_recv_event(s, recv_event), << >>, "addr", At(req_bin, 0),
                req_bin, NoPdu)
    ELSE ascii_dispatch(c, s, req_bin, recv_event, env)

\* mbadu_ascii_handle_req once the frame has the right shape and hex digits
ascii_decoded(c, s, req, recv_event, env) ==
    ascii_checked(c, s, to_bin(req, 1), recv_event, env)

\* mbadu_ascii_handle_req once the frame is counted: shape and hex checks
ascii_counted(c, s, req, recv_event, env) ==
    IF bad_shape(s, req)
    THEN AduOut(add_recv_event(s, recv_event), << >>, "shape", -1, << >>, NoPdu)
    ELSE IF bad_hex(req)
    THEN AduOut(add_recv_event(s, recv_event), << >>, "hex", -1, << >>, NoPdu)
    ELSE ascii_decoded(c, s, req, recv_event, env)

\* mbadu_ascii_handle_req counting only the frames that are no diagnostics
mbadu_ascii_handle_req_late(c, s, req, nonnull, env) ==
    IF ~nonnull THEN AduOut(s, << >>, "invalid", -1, << >>, NoPdu)
    ELSE IF (Len(req) < MBADU_ASCII_SIZE_MIN) \/ (Len(req) > MBADU_ASCII_SIZE_MAX)
         THEN AduOut(s, << >>, "size", -1, << >>, NoPdu)
    ELSE ascii_counted(c, [s EXCEPT !.bus_msg_counter =
                                IF SubSeq(req, 4, 5) = << 48, 56 >> THEN @ ELSE @ + 1],
                       req,
                       IF s.is_listen_only THEN MB_COMM_EVENT_RECV_LISTEN_MODE ELSE 0,
                       env)

\* mbadu_ascii_handle_req; nonnull: inst, req and res are all non-NULL
mbadu_ascii_handle_req(c, s, req, nonnull, env) ==
    IF ~nonnull THEN AduOut(s, << >>, "invalid", -1, << >>, NoPdu)
    ELSE IF (Len(req) < MBADU_ASCII_SIZE_MIN) \/ (Len(req) > MBADU_ASCII_SIZE_MAX)
         THEN AduOut(s, << >>, "size", -1, << >>, NoPdu)
    ELSE ascii_counted(c, [s EXCEPT !.bus_msg_counter = @ + 1], req,
                       IF s.is_listen_only THEN MB_COMM_EVENT_RECV_LISTEN_MODE ELSE 0,
                       env)

(***************************************************************************)
(* Configurations: the descriptor tables and callbacks the host supplies   *)
(***************************************************************************)
\* a coil descriptor
Coil(address, r, rix, val, w, wix, rlock_cb, wlock_cb, post_write_cb) ==
    [ address |-> address,
      r |-> r, rptr |-> IF r = "ptr" THEN "coil_mem" ELSE NULLP, rix |-> rix,
      rfn |-> IF r = "fn" THEN "read.fn" ELSE NULLP, val |-> val,
      w |-> w, wptr |-> IF w = "ptr" THEN "coil_mem" ELSE NULLP, wix |-> wix,
      wfn |-> IF w = "fn" THEN "write.fn" ELSE NULLP,
      rlock_cb |-> rlock_cb, wlock_cb |-> wlock_cb, post_write_cb |-> post_write_cb ]

\* coils 0 and 1 are bits 0 and 1 of coil_mem (coil 1 with lock predicates),
\* coil 2 is a read-only constant, coil 3 is served by callbacks
CoilTable ==
    [ null |-> FALSE,
      d |-> << Coil(0, "ptr", 0, 0, "ptr", 0, FALSE, FALSE, TRUE),
               Coil(1, "ptr", 1, 0, "ptr", 1, TRUE, TRUE, FALSE),
               Coil(2, "val", 0, 1, "none", 0, FALSE, FALSE, FALSE),
               Coil(3, "fn", 0, 0, "fn", 0, FALSE, FALSE, TRUE) >> ]

\* discrete inputs 0 and 1 mirror bits 0 and 1 of coil_mem, read-only
DiscTable ==
    [ null |-> FALSE,
      d |-> << Coil(0, "ptr", 0, 0, "none", 0, FALSE, FALSE, FALSE),
               Coil(1, "ptr", 1, 0, "none", 0, FALSE, FALSE, FALSE) >> ]

NullTable == [ null |-> TRUE, d |-> << >> ]

SlaveAddr == 17

\* a device with coil tables and every diagnostic callback, and a device with
\* no tables that serves function codes through handle_fn_cb
Configs ==
    { [ slave_addr |-> SlaveAddr, enable_def_resp |-> TRUE,
        coils |-> CoilTable, disc_inputs |-> DiscTable, hold_regs |-> NullTable,
        has_handle_fn |-> FALSE, has_request_restart |-> TRUE,
        has_read_diagnostics |-> TRUE, has_reset_diagnostics |-> TRUE,
        has_commit_coils_write |-> TRUE ],
      [ slave_addr |-> SlaveAddr, enable_def_resp |-> FALSE,
        coils |-> NullTable, disc_inputs |-> NullTable, hold_regs |-> NullTable,
        has_handle_fn |-> TRUE, has_request_restart |-> FALSE,
        has_read_diagnostics |-> FALSE, has_reset_diagnostics |-> FALSE,
        has_commit_coils_write |-> FALSE ] }

(***************************************************************************)
(* Inputs: what the host callbacks answer during a call, and the requests  *)
(***************************************************************************)
EnvOK ==
    [ fn_st |-> MB_OK, fn_body |-> << 170 >>, wfn_st |-> MB_OK, rfn |-> 1,
      rlock |-> FALSE, wlock |-> FALSE, diag_reg |-> 4660 ]

EnvLocked == [ EnvOK EXCEPT !.rlock = TRUE, !.wlock = TRUE, !.rfn = 0 ]

\* the callbacks fail with status st
EnvFail(st) == [ EnvOK EXCEPT !.fn_st = st, !.wfn_st = st ]

Envs == { EnvOK, EnvLocked } \cup { EnvFail(st) : st \in MB_ILLEGAL_FN..MB_MEM_PAR_ERR }

DiagReqs ==
    { << 8, 0, 1, 255, 0 >>,     \* restart, clear the log
      << 8, 0, 1, 0, 0 >>,       \* restart, keep the log
      << 8, 0, 1, 0, 1 >>,       \* restart, bad data
      << 8, 0, 1 >>,             \* restart, too short
      << 8, 0, 4, 0, 0 >>,       \* force listen only
      << 8, 0, 0, 171 >>,        \* loopback
      << 8, 0, 3, 59, 0 >>,      \* delimiter ';'
      << 8, 0, 10, 0, 0 >>,      \* clear counters
      << 8, 0, 14, 0, 0 >>,      \* return server message count
      << 8, 0, 19, 0, 0 >>,      \* reserved sub-function
      << 8 >> }

EventReqs == { << 11 >>, << 12 >> }

\* requests whose outcome depends on what the host callbacks answer
CallbackReqs ==
    { << 1, 0, 0, 0, 4 >>,           \* read coils 0..3
      << 5, 0, 1, 255, 0 >>,         \* coil 1 on (lockable)
      << 5, 0, 3, 255, 0 >>,         \* coil 3 on (write callback)
      << 43, 14 >> }                 \* no built-in handler

CoilReqs ==
    { << 5, 0, 0, 255, 0 >>,         \* coil 0 on
      << 5, 0, 0, 1, 2 >>,           \* bad value
      << 15, 0, 0, 0, 2, 1, 3 >>,    \* coils 0..1 on
      << 15, 0, 0, 0, 3, 1, 7 >>,    \* coils 0..2 on, coil 2 read-only
      << 3, 0, 0, 0, 1 >> }          \* read a holding register: hold_regs is NULL

PduReqs == DiagReqs \cup EventReqs \cup CallbackReqs \cup CoilReqs \cup { << >> }

In(req, env, nonnull) == [ req |-> req, env |-> env, nonnull |-> nonnull ]

PduInputs ==
    { In(req, EnvOK, TRUE) : req \in PduReqs }
    \cup { In(req, env, TRUE) : req \in CallbackReqs,
                                 env \in { EnvLocked, EnvFail(MB_DEV_FAIL) } }
    \cup { In(<< 43, 14 >>, env, TRUE) : env \in Envs }
    \cup { In(<< 12 >>, EnvOK, FALSE) }

AsciiAddrs == { SlaveAddr, MBADU_ADDR_BROADCAST, 5 }

AsciiPdus ==
    { << 8, 0, 1, 255, 0 >>, << 8, 0, 4, 0, 0 >>, << 8, 0, 10, 0, 0 >>,
      << 8, 0, 0, 171 >>, << 5, 0, 0, 255, 0 >>, << 43, 14 >> }

\* a well-formed frame, and ways to damage it: a wrong LRC digit, a character
\* that is no hex digit, a wrong start character, a missing character
GoodFrame == ascii_frame(<< SlaveAddr, 5, 0, 0, 255, 0 >>, 10)

BadFrames ==
    { [GoodFrame EXCEPT ![Len(GoodFrame) - 2] = IF @ = 48 THEN 49 ELSE 48],
      [GoodFrame EXCEPT ![4] = 71],
      [GoodFrame EXCEPT ![1] = 59],
      SubSeq(GoodFrame, 1, 5) \o SubSeq(GoodFrame, 7, Len(GoodFrame)) }

\* the same frame in lower-case hex digits
LowerFrame == [i \in 1..Len(GoodFrame) |->
                  IF (GoodFrame[i] >= 65) /\ (GoodFrame[i] <= 70)
                  THEN GoodFrame[i] + 32 ELSE GoodFrame[i]]

\* frames for the default-response address, with the ';' delimiter, with a
\* one-byte PDU, and changing the delimiter
OtherFrames ==
    { ascii_frame(<< MBADU_ADDR_DEFAULT_RESP, 8, 0, 0, 171 >>, 10),
      ascii_frame(<< SlaveAddr, 8, 0, 0, 171 >>, 59),
      ascii_frame(<< SlaveAddr, 12 >>, 10),
      ascii_frame(<< SlaveAddr, 8, 0, 3, 59, 0 >>, 10),
      ascii_frame(<< SlaveAddr, 8, 0, 1, 0, 0 >>, 10) }

AsciiFrames ==
    { ascii_frame(<< a >> \o p, 10) : a \in AsciiAddrs, p \in AsciiPdus }
    \cup BadFrames \cup { LowerFrame } \cup OtherFrames

AsciiInputs ==
    { In(req, EnvOK, TRUE) : req \in AsciiFrames }
    \cup { In(ascii_frame(<< a, 43, 14 >>, 10), EnvFail(MB_DEV_FAIL), TRUE) : a \in AsciiAddrs }
    \cup { In(GoodFrame, EnvOK, FALSE) }

(***************************************************************************)
(* The state machine                                                       *)
(***************************************************************************)
NoCall ==
    [ op |-> "init", req |-> << >>, nonnull |-> TRUE, ret |-> 0, res |-> << >>, adu |-> "none",
      addr |-> -1, bin |-> << >>, pdu |-> << >>, pdu_len |-> 0, pdu_res |-> << >>,
      path |-> "none", st |-> -1, cbs |-> << >>, fn |-> "none" ]

Init ==
    /\ cfg \in Configs
    /\ inst = mbinst_init
    /\ pre = mbinst_init
    /\ last = NoCall
    /\ calls = 0

\* the history of a call of mbpdu_handle_req whose outcome is o
RecordPdu(req, nonnull, o) ==
    /\ pre' = inst
    /\ UNCHANGED cfg
    /\ inst' = o.s
    /\ last' = [ op |-> "pdu", req |-> req, nonnull |-> nonnull, ret |-> o.len, res |-> o.res,
                 adu |-> "none", addr |-> -1, bin |-> << >>, pdu |-> req,
                 pdu_len |-> o.len, pdu_res |-> o.res,
                 path |-> o.path, st |-> o.st, cbs |-> o.cbs, fn |-> o.fn ]

\* the history of a call of mbadu_ascii_handle_req whose outcome is o
RecordAscii(req, nonnull, o) ==
    /\ pre' = inst
    /\ UNCHANGED cfg
    /\ inst' = o.s
    /\ last' = [ op |-> "ascii", req |-> req, nonnull |-> nonnull, ret |-> o.len, res |-> o.res,
                 adu |-> o.adu, addr |-> o.addr, bin |-> o.bin,
                 pdu |-> IF o.adu = "dispatched"
                         THEN SubSeq(o.bin, 2, Len(o.bin) - 1) ELSE << >>,
                 pdu_len |-> o.pdu_len, pdu_res |-> o.pdu_res,
                 path |-> o.path, st |-> o.st, cbs |-> o.cbs, fn |-> o.fn ]

\* the host hands a PDU to mbpdu_handle_req
PduReq ==
    /\ calls < MaxCalls
    /\ calls' = calls + 1
    /\ \E in \in PduInputs :
          RecordPdu(in.req, in.nonnull,
                    mbpdu_handle_req(cfg, inst, in.req, in.nonnull, in.env))

\* the host hands an ASCII frame to mbadu_ascii_handle_req
AsciiReq ==
    /\ calls < MaxCalls
    /\ calls' = calls + 1
    /\ \E in \in AsciiInputs :
          RecordAscii(in.req, in.nonnull,
                      mbadu_ascii_handle_req(cfg, inst, in.req, in.nonnull, in.env))

Next == PduReq \/ AsciiReq

Spec == Init /\ [][Next]_vars

(***************************************************************************)
(* The event log over long runs: the instance first serves up to MaxFill   *)
(* requests (an exception, a log read and a failed coil write in turn, so  *)
(* that neighbouring entries differ), then MaxLogCalls more requests from  *)
(* a small alphabet that appends and clears.                               *)
(***************************************************************************)
LogCfg == CHOOSE c \in Configs : ~c.has_handle_fn

\* the k-th request of the pattern
FillReq(k) ==
    CASE k % 3 = 1 -> << 43, 14 >>
      [] k % 3 = 2 -> << 12 >>
      [] OTHER -> << 15, 0, 0, 0, 3, 1, 7 >>

LogPduReqs ==
    { << 12 >>, << 43, 14 >>, << 8, 0, 1, 255, 0 >>, << 8, 0, 1, 0, 0 >>,
      << 8, 0, 4, 0, 0 >> }

\* a broadcast loopback and a frame with a wrong LRC digit
LogFrames ==
    { ascii_frame(<< 0, 8, 0, 0, 171 >>, 10),
      [GoodFrame EXCEPT ![Len(GoodFrame) - 2] = IF @ = 48 THEN 49 ELSE 48] }

InitLog ==
    /\ cfg = LogCfg
    /\ inst = mbinst_init
    /\ pre = mbinst_init
    /\ last = NoCall
    /\ calls = 0

\* before the run proper the host sends the next request of the pattern;
\* none of them resets msg_counter, which counts them
FillLogReq ==
    /\ calls = 0
    /\ inst.msg_counter < MaxFill
    /\ UNCHANGED calls
    /\ RecordPdu(FillReq(inst.msg_counter + 1), TRUE,
                 mbpdu_handle_req(cfg, inst, FillReq(inst.msg_counter + 1), TRUE, EnvOK))

PduLogReq ==
    /\ calls < MaxLogCalls
    /\ calls' = calls + 1
    /\ \E req \in LogPduReqs :
          RecordPdu(req, TRUE, mbpdu_handle_req(cfg, inst, req, TRUE, EnvOK))

AsciiLogReq ==
    /\ calls < MaxLogCalls
    /\ calls' = calls + 1
    /\ \E req \in LogFrames :
          RecordAscii(req, TRUE, mbadu_ascii_handle_req(cfg, inst, req, TRUE, EnvOK))

NextLog == FillLogReq \/ PduLogReq \/ AsciiLogReq

SpecLog == InitLog /\ [][NextLog]_vars

(***************************************************************************)
(* The ASCII framer on its own: frames to every kind of address, intact    *)
(* and with a damaged LRC, on instances in and out of listen-only mode.    *)
(***************************************************************************)
FrameAddrs == { SlaveAddr, MBADU_ADDR_BROADCAST, 5, MBADU_ADDR_DEFAULT_RESP }

FramePdus == { << 5, 0, 0, 255, 0 >>, << 8, 0, 4, 0, 0 >>, << 8, 0, 0, 171 >> }

IntactFrames == { ascii_frame(<< a >> \o p, 10) : a \in FrameAddrs, p \in FramePdus }

\* the frame f with the last digit of its LRC changed
WrongLrc(f) == [f EXCEPT ![Len(f) - 2] = IF @ = 48 THEN 49 ELSE 48]

WrongLrcFrames == { WrongLrc(f) : f \in IntactFrames }

IntactFrameReq ==
    /\ calls < MaxFrameCalls
    /\ calls' = calls + 1
    /\ \E req \in IntactFrames :
          RecordAscii(req, TRUE, mbadu_ascii_handle_req(cfg, inst, req, TRUE, EnvOK))

DamagedFrameReq ==
    /\ calls < MaxFrameCalls
    /\ calls' = calls + 1
    /\ \E req \in WrongLrcFrames \cup BadFrames :
          RecordAscii(req, TRUE, mbadu_ascii_handle_req(cfg, inst, req, TRUE, EnvOK))

NextFrame == IntactFrameReq \/ DamagedFrameReq

SpecFrame == Init /\ [][NextFrame]_vars

(***************************************************************************)
(* SpecRegs: a device at address 17 whose holding registers are read over  *)
(* the ASCII line                                                          *)
(***************************************************************************)
MaxRegCalls == 3

\* holding registers 0x006B .. 0x006D read 0x4242; 0x006F stands alone
HoldRegs ==
    [ null |-> FALSE,
      d |-> << Reg(107, 16962), Reg(108, 16962), Reg(109, 16962), Reg(111, 4660) >> ]

RegCfg ==
    [ slave_addr |-> SlaveAddr, enable_def_resp |-> FALSE,
      coils |-> NullTable, disc_inputs |-> NullTable, hold_regs |-> HoldRegs,
      has_handle_fn |-> FALSE, has_request_restart |-> FALSE,
      has_read_diagnostics |-> FALSE, has_reset_diagnostics |-> FALSE,
      has_commit_coils_write |-> FALSE ]

\* ":1103006B00037E\r\n"
ReadRegsFrame ==
    << 58, 49, 49, 48, 51, 48, 48, 54, 66, 48, 48, 48, 51, 55, 69, 13, 10 >>

\* other reads of the holding registers: start address and quantity
RegReads == { << 107, 1 >>, << 108, 2 >>, << 108, 4 >>, << 110, 1 >>, << 111, 1 >>,
              << 107, 0 >>, << 107, 126 >> }

RegFrames ==
    { ReadRegsFrame } \cup
    { ascii_frame(<< a, MBFC_READ_HOLDING_REGS >> \o u16tobe(r[1]) \o u16tobe(r[2]), 10) :
        a \in { SlaveAddr, MBADU_ADDR_BROADCAST }, r \in RegReads }

InitRegs ==
    /\ cfg = RegCfg
    /\ inst = mbinst_init
    /\ pre = mbinst_init
    /\ last = NoCall
    /\ calls = 0

AsciiRegsReq ==
    /\ calls < MaxRegCalls
    /\ calls' = calls + 1
    /\ \E req \in RegFrames :
          RecordAscii(req, TRUE, mbadu_ascii_handle_req(cfg, inst, req, TRUE, EnvOK))

NextRegs == AsciiRegsReq

SpecRegs == InitRegs /\ [][NextRegs]_vars

(***************************************************************************)
(* SpecCodec: a payload is framed by prep_res and the frame, intact or     *)
(* with one character of its body replaced, is handed to                   *)
(* mbadu_ascii_handle_req                                                  *)
(***************************************************************************)
MaxPayload == 3

CodecBytes == { 17, 171, 250 }

\* address byte followed by the PDU
RECURSIVE PayloadsOfLen(_)
PayloadsOfLen(n) ==
    IF n = 0 THEN { << >> }
    ELSE { << b >> \o p : b \in CodecBytes, p \in PayloadsOfLen(n - 1) }

Payloads == UNION { PayloadsOfLen(n) : n \in 2..MaxPayload }

\* what the line can put in place of a character: the hex digits in both
\* cases and some other characters
WireChars == { At(hex_digits, k) : k \in 0..15 } \cup (97..102)
                 \cup { 71, 103, 47, 58, 64, 32, 13, 10 }

\* the delimiters FC 0x08 sub 0x0003 may have left
CodecDelimiters == { 10, 59 }

InitCodec ==
    /\ cfg = CHOOSE c \in Configs : ~c.has_handle_fn
    /\ \E d \in CodecDelimiters : inst = [mbinst_init EXCEPT !.ascii_delimiter = d]
    /\ pre = inst
    /\ last = NoCall @@ [ payload |-> << >>, pos |-> -1 ]
    /\ calls = 0

\* the history of a call of mbadu_ascii_handle_req on a frame made from
\* payload, whose character at offset pos was replaced (pos = -1: none)
RecordCodec(payload, pos, req, o) ==
    /\ pre' = inst
    /\ UNCHANGED cfg
    /\ inst' = o.s
    /\ calls' = calls + 1
    /\ last' = [ op |-> "ascii", req |-> req, nonnull |-> TRUE, ret |-> o.len, res |-> o.res,
                 adu |-> o.adu, addr |-> o.addr, bin |-> o.bin, pdu |-> << >>,
                 pdu_len |-> o.pdu_len, pdu_res |-> o.pdu_res,
                 path |-> o.path, st |-> o.st, cbs |-> o.cbs, fn |-> o.fn,
                 payload |-> payload, pos |-> pos ]

\* the frame of a payload comes back unchanged
EncodedReq ==
    /\ calls = 0
    /\ \E p \in Payloads :
          RecordCodec(p, -1, prep_res(inst, p),
                      mbadu_ascii_handle_req(cfg, inst, prep_res(inst, p), TRUE, EnvOK))

\* the frame req, whose character at offset pos was replaced
CorruptedCall(p, pos, req) ==
    RecordCodec(p, pos, req, mbadu_ascii_handle_req(cfg, inst, req, TRUE, EnvOK))

\* the frame of a payload comes back with one character of its body
\* replaced by another, the LRC trailer being as sent
CorruptedReq ==
    /\ calls = 0
    /\ \E p \in Payloads : \E pos \in 1..(2 * Len(p)) :
          \E ch \in WireChars \ { At(prep_res(inst, p), pos) } :
             CorruptedCall(p, pos, [prep_res(inst, p) EXCEPT ![pos + 1] = ch])

NextCodec == EncodedReq \/ CorruptedReq

SpecCodec == InitCodec /\ [][NextCodec]_vars

(***************************************************************************)
(* SpecCoils: one request for the coils or discrete inputs of a device     *)
(* whose tables have gaps, locks, constants, callbacks and a coil without  *)
(* read access, from any content of the coil storage                       *)
(***************************************************************************)
\* coils 0, 1 and 9 are bits 0, 1 and 3 of coil_mem (coil 1 with lock
\* predicates), coil 2 is a read-only constant, coil 3 is served by
\* callbacks, coil 4 is missing, coil 5 is bit 2 of coil_mem and can only be
\* written, coils 6 and 1999 are read-only constants
WideCoils ==
    [ null |-> FALSE,
      d |-> << Coil(0, "ptr", 0, 0, "ptr", 0, FALSE, FALSE, TRUE),
               Coil(1, "ptr", 1, 0, "ptr", 1, TRUE, TRUE, FALSE),
               Coil(2, "val", 0, 1, "none", 0, FALSE, FALSE, FALSE),
               Coil(3, "fn", 0, 0, "fn", 0, FALSE, FALSE, TRUE),
               Coil(5, "none", 0, 0, "ptr", 2, FALSE, FALSE, FALSE),
               Coil(6, "val", 0, 1, "none", 0, FALSE, FALSE, FALSE),
               Coil(9, "ptr", 3, 0, "ptr", 3, FALSE, FALSE, FALSE),
               Coil(10, "ptr", 4, 0, "ptr", 4, FALSE, FALSE, TRUE),
               Coil(11, "fn", 0, 0, "fn", 0, FALSE, FALSE, TRUE),
               Coil(12, "ptr", 5, 0, "ptr", 5, FALSE, FALSE, TRUE),
               Coil(1999, "val", 0, 1, "none", 0, FALSE, FALSE, FALSE) >> ]

\* discrete inputs 0 and 1 mirror bits 0 and 1 of coil_mem, input 2 is a
\* constant behind a read lock, input 5 is served by a callback
WideInputs ==
    [ null |-> FALSE,
      d |-> << Coil(0, "ptr", 0, 0, "none", 0, FALSE, FALSE, FALSE),
               Coil(1, "ptr", 1, 0, "none", 0, FALSE, FALSE, FALSE),
               Coil(2, "val", 0, 1, "none", 0, TRUE, FALSE, FALSE),
               Coil(5, "fn", 0, 0, "none", 0, FALSE, FALSE, FALSE) >> ]

CoilCfg ==
    [ slave_addr |-> SlaveAddr, enable_def_resp |-> FALSE,
      coils |-> WideCoils, disc_inputs |-> WideInputs, hold_regs |-> NullTable,
      has_handle_fn |-> FALSE, has_request_restart |-> FALSE,
      has_read_diagnostics |-> FALSE, has_reset_diagnostics |-> FALSE,
      has_commit_coils_write |-> TRUE ]

\* the read callback answers OFF
EnvReadsOff == [ EnvOK EXCEPT !.rfn = 0 ]

ReadEnvs == { EnvOK, EnvReadsOff, EnvLocked }

WriteEnvs == { EnvOK, EnvLocked, EnvFail(MB_DEV_FAIL) }

\* FC 0x01 / 0x02: start address and quantity
ReadCoilsReqs ==
    { << fc >> \o u16tobe(a) \o u16tobe(q) :
        fc \in { MBFC_READ_COILS, MBFC_READ_DISC_INPUTS },
        a \in { 0, 1, 2, 4, 5, 7 },
        q \in { 0, 1, 2, 3, 8, 9, 10, MBCOIL_N_READ_MAX, MBCOIL_N_READ_MAX + 1 } }

\* FC 0x05: address and value
WriteCoilReqs ==
    { << MBFC_WRITE_SINGLE_COIL >> \o u16tobe(a) \o u16tobe(v) :
        a \in { 0, 1, 2, 3, 4, 5, 9 }, v \in { MBCOIL_ON, MBCOIL_OFF, 255, 1 } }

\* FC 0x0F: start address, quantity, and one byte of values
WriteCoilsReqs ==
    { << MBFC_WRITE_MULTIPLE_COILS >> \o u16tobe(a) \o u16tobe(q) \o << 1, v >> :
        a \in { 0, 1, 3, 5, 9, 10 }, q \in 1..3, v \in { 0, 5, 7 } }

InitCoils ==
    /\ cfg = CoilCfg
    /\ \E mem \in 0..15 : inst = [mbinst_init EXCEPT !.coil_mem = mem]
    /\ pre = inst
    /\ last = NoCall @@ [ env |-> EnvOK ]
    /\ calls = 0

\* the history of a call of mbpdu_handle_req during which the host
\* callbacks answered as env says
RecordCoils(req, env, o) ==
    /\ pre' = inst
    /\ UNCHANGED cfg
    /\ inst' = o.s
    /\ calls' = calls + 1
    /\ last' = [ op |-> "pdu", req |-> req, nonnull |-> TRUE, ret |-> o.len, res |-> o.res,
                 adu |-> "none", addr |-> -1, bin |-> << >>, pdu |-> req,
                 pdu_len |-> o.len, pdu_res |-> o.res,
                 path |-> o.path, st |-> o.st, cbs |-> o.cbs, fn |-> o.fn,
                 env |-> env ]

ReadCoilsReq ==
    /\ calls = 0
    /\ \E req \in ReadCoilsReqs : \E env \in ReadEnvs :
          RecordCoils(req, env, mbpdu_handle_req(cfg, inst, req, TRUE, env))

WriteCoilReq ==
    /\ calls = 0
    /\ \E req \in WriteCoilReqs : \E env \in WriteEnvs :
          RecordCoils(req, env, mbpdu_handle_req(cfg, inst, req, TRUE, env))

WriteCoilsReq ==
    /\ calls = 0
    /\ \E req \in WriteCoilsReqs : \E env \in WriteEnvs :
          RecordCoils(req, env, mbpdu_handle_req(cfg, inst, req, TRUE, env))

NextCoils == ReadCoilsReq \/ WriteCoilReq \/ WriteCoilsReq

SpecCoils == InitCoils /\ [][NextCoils]_vars

(***************************************************************************)
(* SpecFiles: one FC 0x14 request handed to mbfn_file_read, on a device    *)
(* with two files                                                          *)
(***************************************************************************)
MaxSubReqs == 2
MaxRecords == 3
MaxTableKey == 18
MaxWarmups == 2
MaxDelimCalls == 3

\* file 3 holds 0xDEAD, 0xBEEF at records 9, 10 and 0x0102 at record 12;
\* file 4 holds 0x1234, 0xABCD at records 1, 2
FileTable ==
    [ null |-> FALSE,
      d |-> << File(3, [ null |-> FALSE,
                         d |-> << Reg(9, 57005), Reg(10, 48879), Reg(12, 258) >> ]),
               File(4, [ null |-> FALSE,
                         d |-> << Reg(1, 4660), Reg(2, 43981) >> ]) >> ]

FileCfg ==
    [ slave_addr |-> SlaveAddr, enable_def_resp |-> FALSE,
      coils |-> NullTable, disc_inputs |-> NullTable, hold_regs |-> NullTable,
      has_handle_fn |-> FALSE, has_request_restart |-> FALSE,
      has_read_diagnostics |-> FALSE, has_reset_diagnostics |-> FALSE,
      has_commit_coils_write |-> FALSE,
      files |-> FileTable, allow_ext_file_recs |-> FALSE ]

\* the seven bytes of a sub-request
SubReq(ref_type, file_no, record_no, record_length) ==
    << ref_type >> \o u16tobe(file_no) \o u16tobe(record_no) \o u16tobe(record_length)

SubReqs ==
    { SubReq(REF_TYPE, f, r, l) : f \in { 3, 4, 5 }, r \in { 1, 2, 9 }, l \in 1..3 }
      \cup { SubReq(REF_TYPE, 0, 1, 1), SubReq(REF_TYPE, 4, 1, 0),
             SubReq(REF_TYPE, 4, MAX_REC_NO + 1, 1), SubReq(7, 4, 1, 1),
             SubReq(REF_TYPE, 4, 1, 122) }

\* the requests of n sub-requests, without the header
RECURSIVE SubReqSeqs(_)
SubReqSeqs(n) ==
    IF n = 0 THEN { << >> }
    ELSE { s \o t : s \in SubReqs, t \in SubReqSeqs(n - 1) }

FileReadReqs ==
    { << MBFC_READ_FILE_RECORD, Len(b) >> \o b :
        b \in UNION { SubReqSeqs(n) : n \in 1..MaxSubReqs } }

\* requests whose byte count does not fit
BadFileReadReqs ==
    { << MBFC_READ_FILE_RECORD, 7 >> \o SubReq(REF_TYPE, 4, 1, 1) \o << 0 >>,
      << MBFC_READ_FILE_RECORD, 8 >> \o SubReq(REF_TYPE, 4, 1, 1) \o << 0 >>,
      << MBFC_READ_FILE_RECORD, 6 >> \o << 6, 0, 4, 0, 1, 0 >>,
      << MBFC_READ_FILE_RECORD, 0 >> }

InitFiles ==
    /\ cfg = FileCfg
    /\ inst = mbinst_init
    /\ pre = mbinst_init
    /\ last = NoCall
    /\ calls = 0

\* the history of a call of mbfn_file_read that returned o: the status and
\* the response buffer, whose length is res->size
RecordFile(req, o) ==
    /\ pre' = inst
    /\ UNCHANGED cfg
    /\ inst' = o.s
    /\ calls' = calls + 1
    /\ last' = [ NoCall EXCEPT !.op = "file", !.req = req, !.pdu = req, !.st = o.st,
                               !.res = o.res, !.ret = Len(o.res), !.fn = o.fn ]

FileReadReq ==
    /\ calls = 0
    /\ \E req \in FileReadReqs : RecordFile(req, mbfn_file_read(cfg, inst, req, EnvOK))

BadFileReadReq ==
    /\ calls = 0
    /\ \E req \in BadFileReadReqs : RecordFile(req, mbfn_file_read(cfg, inst, req, EnvOK))

NextFiles == FileReadReq \/ BadFileReadReq

SpecFiles == InitFiles /\ [][NextFiles]_vars

(***************************************************************************)
(* SpecFilePdu: one FC 0x14 or FC 0x15 request handed to mbpdu_handle_req, *)
(* on a device whose files 3 and 4 are read-only and whose files 7 and 8   *)
(* are written through pointers and callbacks                              *)
(***************************************************************************)
\* file 7: records 1 and 2 are words 1 and 2 of reg_mem (record 2 with a
\* post-write hook), record 3 is written through a callback, record 5 is
\* read-only, record 6 is word 3 of reg_mem behind a write-lock predicate;
\* file 8: records 1 and 2 are words 4 and 5 of reg_mem
WritableFiles ==
    << File(7, [ null |-> FALSE,
                 d |-> << RegDesc(1, "ptr", 0, "ptr", 1, FALSE, FALSE, FALSE),
                          RegDesc(2, "ptr", 0, "ptr", 2, FALSE, FALSE, TRUE),
                          RegDesc(3, "none", 0, "fn", 0, FALSE, FALSE, TRUE),
                          RegDesc(5, "val", 7, "none", 0, FALSE, FALSE, FALSE),
                          RegDesc(6, "ptr", 0, "ptr", 3, FALSE, TRUE, FALSE) >> ]),
       File(8, [ null |-> FALSE,
                 d |-> << RegDesc(1, "ptr", 0, "ptr", 4, FALSE, FALSE, FALSE),
                          RegDesc(2, "ptr", 0, "ptr", 5, FALSE, FALSE, TRUE) >> ]) >>

FilePduCfg ==
    [ FileCfg EXCEPT !.files = [ null |-> FALSE, d |-> FileTable.d \o WritableFiles ] ]
        @@ [ has_commit_regs_write |-> TRUE ]

\* the storage behind the pointer-mode records
RegMem == << 1, 2, 3, 4, 5 >>

RegEnvOK == EnvOK @@ [ rfn_st |-> MB_OK, rfn_val |-> 4660 ]

RegEnvs ==
    { RegEnvOK, [ RegEnvOK EXCEPT !.wlock = TRUE ],
      [ RegEnvOK EXCEPT !.wfn_st = MB_DEV_FAIL ] }

\* a write sub-request: the header and the record data
WSubReq(ref_type, file_no, record_no, record_length, data) ==
    SubReq(ref_type, file_no, record_no, record_length) \o data

WordA == << 18, 52 >>

WordB == << 171, 205 >>

WSubReqs ==
    { WSubReq(REF_TYPE, 7, 1, 1, WordA), WSubReq(REF_TYPE, 7, 1, 2, WordA \o WordB),
      WSubReq(REF_TYPE, 7, 1, 1, WordB), WSubReq(REF_TYPE, 7, 2, 2, WordB \o WordA),
      WSubReq(REF_TYPE, 7, 3, 1, WordA), WSubReq(REF_TYPE, 7, 3, 2, WordA \o WordB),
      WSubReq(REF_TYPE, 7, 5, 1, WordA), WSubReq(REF_TYPE, 7, 6, 1, WordA),
      WSubReq(REF_TYPE, 8, 1, 2, WordB \o WordA), WSubReq(REF_TYPE, 8, 2, 1, WordA),
      WSubReq(REF_TYPE, 9, 1, 1, WordA), WSubReq(REF_TYPE, 0, 1, 1, WordA),
      WSubReq(REF_TYPE, 8, MAX_REC_NO + 1, 1, WordA), WSubReq(7, 8, 1, 1, WordA),
      WSubReq(REF_TYPE, 8, 1, 0, WordA),
      WSubReq(REF_TYPE, 8, 1, 2, WordA), WSubReq(REF_TYPE, 0, 1, 2, WordA) }

RECURSIVE WSubReqSeqs(_)
WSubReqSeqs(n) ==
    IF n = 0 THEN { << >> }
    ELSE { s \o t : s \in WSubReqs, t \in WSubReqSeqs(n - 1) }

FileWriteReqs ==
    { << MBFC_WRITE_FILE_RECORD, Len(b) >> \o b :
        b \in UNION { WSubReqSeqs(n) : n \in 1..MaxSubReqs } }

\* write requests whose byte count does not fit
BadFileWriteReqs ==
    { << MBFC_WRITE_FILE_RECORD, 8 >> \o SubReq(REF_TYPE, 8, 1, 1) \o << 18 >>,
      << MBFC_WRITE_FILE_RECORD, 8 >> \o WSubReq(REF_TYPE, 8, 1, 1, WordA),
      << MBFC_WRITE_FILE_RECORD, 10 >> \o WSubReq(REF_TYPE, 8, 1, 1, WordA),
      << MBFC_WRITE_FILE_RECORD, 9 >> \o WSubReq(REF_TYPE, 8, 1, 1, WordA) \o << 0 >>,
      << MBFC_WRITE_FILE_RECORD, 10 >> \o WSubReq(REF_TYPE, 8, 1, 1, WordA) \o << 0 >>,
      << MBFC_WRITE_FILE_RECORD, 0 >> }

InitFilePdu ==
    /\ cfg = FilePduCfg
    /\ inst = mbinst_init @@ [ reg_mem |-> RegMem ]
    /\ pre = inst
    /\ last = NoCall @@ [ env |-> RegEnvOK ]
    /\ calls = 0

\* the history of a call of mbpdu_handle_req whose outcome is o
RecordFilePdu(req, env, o) ==
    /\ pre' = inst
    /\ UNCHANGED cfg
    /\ inst' = o.s
    /\ calls' = calls + 1
    /\ last' = [ NoCall EXCEPT !.op = "pdu", !.req = req, !.pdu = req, !.ret = o.len,
                               !.res = o.res, !.path = o.path, !.st = o.st,
                               !.cbs = o.cbs, !.fn = o.fn ] @@ [ env |-> env ]

FilePduReadReq ==
    /\ calls = 0
    /\ \E req \in FileReadReqs \cup BadFileReadReqs :
         RecordFilePdu(req, RegEnvOK, mbpdu_handle_file_req(cfg, inst, req, RegEnvOK))

FilePduWriteReq ==
    /\ calls = 0
    /\ \E req \in FileWriteReqs, env \in RegEnvs :
         RecordFilePdu(req, env, mbpdu_handle_file_req(cfg, inst, req, env))

BadFilePduWriteReq ==
    /\ calls = 0
    /\ \E req \in BadFileWriteReqs, env \in RegEnvs :
         RecordFilePdu(req, env, mbpdu_handle_file_req(cfg, inst, req, env))

NextFilePdu == FilePduReadReq \/ FilePduWriteReq \/ BadFilePduWriteReq

SpecFilePdu == InitFilePdu /\ [][NextFilePdu]_vars

(***************************************************************************)
(* SpecRecords: one call of mbfile_read on a file whose records differ in  *)
(* their read access, with and without a response buffer                   *)
(***************************************************************************)
\* record 1 holds 0xDEAD inline, record 2 is word 1 of reg_mem, record 3 is
\* read through a callback, record 4 is missing, record 5 is write-only,
\* records 6 (inline 0xBEEF) and 7 (callback) have a read-lock predicate,
\* record 65535 holds 0x0102 inline
MixedFile ==
    File(9, [ null |-> FALSE,
              d |-> << RegDesc(1, "val", 57005, "none", 0, FALSE, FALSE, FALSE),
                       RegDesc(2, "ptr", 0, "ptr", 1, FALSE, FALSE, FALSE),
                       RegDesc(3, "fn", 0, "none", 0, FALSE, FALSE, FALSE),
                       RegDesc(5, "none", 0, "ptr", 2, FALSE, FALSE, FALSE),
                       RegDesc(6, "val", 48879, "none", 0, TRUE, FALSE, FALSE),
                       RegDesc(7, "fn", 0, "none", 0, TRUE, FALSE, FALSE),
                       RegDesc(65535, "val", 258, "none", 0, FALSE, FALSE, FALSE) >> ])

RecordsCfg == [ FilePduCfg EXCEPT !.files = [ null |-> FALSE, d |-> << MixedFile >> ] ]

ReadRegEnvs ==
    { [ RegEnvOK EXCEPT !.rlock = l, !.rfn_st = st ] :
        l \in BOOLEAN, st \in { MB_OK, MB_DEV_FAIL } }

\* what the response holds before the call
ResBufs == { NoResBuf, ResBuf(<< 20, 0 >>), ResBuf(<< 20, 0, 5, 6, 18, 52, 171, 205 >>) }

FirstRecords == 0..8 \cup { 65535 }

InitRecords ==
    /\ cfg = RecordsCfg
    /\ inst = mbinst_init @@ [ reg_mem |-> RegMem ]
    /\ pre = inst
    /\ last = NoCall @@ [ env |-> RegEnvOK, record_no |-> 0, record_length |-> 0,
                          buf |-> NoResBuf ]
    /\ calls = 0

\* the history of a call of mbfile_read that returned o: its status and the
\* buffer it leaves
RecordRecords(record_no, record_length, buf, env, o) ==
    /\ pre' = inst
    /\ UNCHANGED << cfg, inst >>
    /\ calls' = calls + 1
    /\ last' = [ NoCall EXCEPT !.op = "mbfile_read", !.st = o.st, !.res = o.p,
                               !.fn = "mbfile_read" ]
                  @@ [ env |-> env, record_no |-> record_no,
                       record_length |-> record_length, buf |-> buf ]

FileReadCall ==
    /\ calls = 0
    /\ \E record_no \in FirstRecords, record_length \in 0..MaxRecords,
          buf \in ResBufs, env \in ReadRegEnvs :
         RecordRecords(record_no, record_length, buf, env,
                       mbfile_read(cfg.files.d[1], record_no, record_length, buf,
                                   inst, env))

NextRecords == FileReadCall

SpecRecords == InitRecords /\ [][NextRecords]_vars

(***************************************************************************)
(* SpecFind: one lookup, mbfile_find or mbcoil_find_desc, in a table       *)
(* sorted by key without duplicates, of up to MaxTableKey + 1 entries      *)
(***************************************************************************)
\* the keys tables are made of: 0 .. MaxTableKey-1 and 0xFFFF
TableKeys == 0..(MaxTableKey - 1) \cup { 65535 }

\* the keys looked up: those, and one that is in no table
LookupKeys == TableKeys \cup { MaxTableKey }

\* the keys of S in ascending order
RECURSIVE SortedKeys(_)
SortedKeys(S) ==
    IF S = { } THEN << >>
    ELSE LET k == CHOOSE x \in S : \A y \in S : x <= y
         IN  << k >> \o SortedKeys(S \ { k })

\* the key sets: all keys but up to two (tables above the threshold), up to
\* two keys (tables below it), and the first 16 keys (a table at it)
KeySets ==
    { TableKeys \ { a, b } : a, b \in TableKeys }
       \cup { TableKeys } \cup { { a, b } : a, b \in TableKeys } \cup { { } }
       \cup { 0..(BSEARCH_THRESHOLD - 1) }

FileTableOf(S) ==
    [ null |-> FALSE,
      d |-> [ i \in 1..Cardinality(S) |-> File(SortedKeys(S)[i], NullTable) ] ]

CoilTableOf(S) ==
    [ null |-> FALSE,
      d |-> [ i \in 1..Cardinality(S) |->
                Coil(SortedKeys(S)[i], "val", 0, 1, "none", 0, FALSE, FALSE, FALSE) ] ]

\* a configuration with the tables of S, or with no tables at all
FindCfgs ==
    { [ FileCfg EXCEPT !.files = FileTableOf(S), !.coils = CoilTableOf(S) ] :
        S \in KeySets }
       \cup { [ FileCfg EXCEPT !.files = NullTable ] }

InitFind ==
    /\ cfg \in FindCfgs
    /\ inst = mbinst_init
    /\ pre = inst
    /\ last = NoCall @@ [ key |-> 0, found |-> NULL, scanned |-> NULL ]
    /\ calls = 0

\* the history of a lookup of key: what it found, and what the linear scan
\* of the same table finds
RecordFind(op, key, found, scanned) ==
    /\ UNCHANGED << cfg, inst, pre >>
    /\ calls' = calls + 1
    /\ last' = [ NoCall EXCEPT !.op = op, !.fn = op ]
                  @@ [ key |-> key, found |-> found, scanned |-> scanned ]

FileFindCall ==
    /\ calls = 0
    /\ \E key \in LookupKeys :
         RecordFind("mbfile_find", key, mbfile_find(cfg.files, key),
                    IF cfg.files.null THEN NULL ELSE mbfile_lsearch(cfg.files.d, 0, key))

CoilFindCall ==
    /\ calls = 0
    /\ \E key \in LookupKeys :
         RecordFind("mbcoil_find_desc", key, mbcoil_find_desc(cfg.coils, key),
                    IF cfg.coils.null THEN NULL ELSE mbcoil_lsearch(cfg.coils.d, 0, key))

NextFind == FileFindCall \/ CoilFindCall

SpecFind == InitFind /\ [][NextFind]_vars

(***************************************************************************)
(* SpecDiag: after up to MaxWarmups requests that move the counters, the   *)
(* event log and the mode, one FC 0x08 request of any sub-function, data   *)
(* and length                                                              *)
(***************************************************************************)
\* a request that ends in an exception or in the fallback, and the request
\* that forces listen-only mode
WarmupPdus == { << 1, 0, 9, 0, 1 >>, << 8, 0, 4, 0, 0 >> }

\* a frame for this device and a frame with a wrong LRC digit
WarmupFrames ==
    { GoodFrame, [GoodFrame EXCEPT ![Len(GoodFrame) - 2] = IF @ = 48 THEN 49 ELSE 48] }

DiagSubFns == 0..5 \cup 10..21 \cup { 256 }

DiagData == { << h, l >> : h \in { 0, 59, 128, 255 }, l \in { 0, 1 } }

\* FC 0x08 requests of 1 to 6 bytes
DiagSubReqs ==
    { << 8 >>, << 8, 0 >> }
       \cup { << 8 >> \o u16tobe(f) : f \in DiagSubFns }
       \cup { << 8 >> \o u16tobe(f) \o << h >> : f \in DiagSubFns, h \in { 0, 59, 128, 255 } }
       \cup { << 8 >> \o u16tobe(f) \o d : f \in DiagSubFns, d \in DiagData }
       \cup { << 8 >> \o u16tobe(f) \o d \o << 0 >> : f \in DiagSubFns, d \in DiagData }

InitDiag ==
    /\ cfg \in Configs
    /\ inst = mbinst_init
    /\ pre = mbinst_init
    /\ last = NoCall
    /\ calls = 0

WarmupPduReq ==
    /\ calls < MaxWarmups
    /\ last.op # "diag"
    /\ calls' = calls + 1
    /\ \E req \in WarmupPdus :
          RecordPdu(req, TRUE, mbpdu_handle_req(cfg, inst, req, TRUE, EnvOK))

WarmupAsciiReq ==
    /\ calls < MaxWarmups
    /\ last.op # "diag"
    /\ calls' = calls + 1
    /\ \E req \in WarmupFrames :
          RecordAscii(req, TRUE, mbadu_ascii_handle_req(cfg, inst, req, TRUE, EnvOK))

\* the history of the FC 0x08 request
RecordDiag(req, o) ==
    /\ pre' = inst
    /\ UNCHANGED cfg
    /\ inst' = o.s
    /\ calls' = MaxWarmups + 1
    /\ last' = [ NoCall EXCEPT !.op = "diag", !.req = req, !.ret = o.len, !.res = o.res,
                               !.pdu = req, !.pdu_len = o.len, !.pdu_res = o.res,
                               !.path = o.path, !.st = o.st, !.cbs = o.cbs, !.fn = o.fn ]

DiagReq ==
    /\ last.op # "diag"
    /\ \E req \in DiagSubReqs :
          RecordDiag(req, mbpdu_handle_req(cfg, inst, req, TRUE, EnvOK))

NextDiag == WarmupPduReq \/ WarmupAsciiReq \/ DiagReq

SpecDiag == InitDiag /\ [][NextDiag]_vars

(***************************************************************************)
(* SpecDelim: delimiter changes, restarts and Force Listen Only, as PDUs   *)
(* and as ASCII frames ended by the default or by another delimiter        *)
(***************************************************************************)
DelimPdus ==
    { << 8, 0, 3, 59, 0 >>, << 8, 0, 3, 127, 0 >>, << 8, 0, 3, 128, 0 >>,
      << 8, 0, 3, 59, 1 >>, << 8, 0, 1, 0, 0 >>, << 8, 0, 1, 255, 0 >>,
      << 8, 0, 4, 0, 0 >> }

\* the frames' last characters
Terminators == { 10, 59, 127 }

\* address and PDU of the frames: a coil write, a delimiter change and a
\* restart for this device, a delimiter change for all devices
DelimAdus ==
    { << SlaveAddr, 5, 0, 0, 255, 0 >>, << SlaveAddr, 8, 0, 3, 59, 0 >>,
      << SlaveAddr, 8, 0, 1, 0, 0 >>,
      << MBADU_ADDR_BROADCAST, 8, 0, 3, 127, 0 >> }

DelimFrames == { ascii_frame(bin, t) : bin \in DelimAdus, t \in Terminators }

DelimPduReq ==
    /\ calls < MaxDelimCalls
    /\ calls' = calls + 1
    /\ \E req \in DelimPdus :
          RecordPdu(req, TRUE, mbpdu_handle_req(cfg, inst, req, TRUE, EnvOK))

DelimAsciiReq ==
    /\ calls < MaxDelimCalls
    /\ calls' = calls + 1
    /\ \E req \in DelimFrames :
          RecordAscii(req, TRUE, mbadu_ascii_handle_req(cfg, inst, req, TRUE, EnvOK))

NextDelim == DelimPduReq \/ DelimAsciiReq

SpecDelim == Init /\ [][NextDelim]_vars

(***************************************************************************)
(* SpecClear: after up to MaxWarmups requests and character overruns, one  *)
(* valid request to clear the counters or the overrun counter              *)
(***************************************************************************)
ClearReqs == { << 8, 0, 10, 0, 0 >>, << 8, 0, 20, 0, 0 >> }

\* the serial driver of the host counts a character overrun; the library
\* itself only reads and clears bus_char_overrun_counter
HostCharOverrun ==
    /\ calls < MaxWarmups
    /\ last.op # "diag"
    /\ calls' = calls + 1
    /\ pre' = inst
    /\ inst' = [inst EXCEPT !.bus_char_overrun_counter = @ + 1]
    /\ last' = [NoCall EXCEPT !.op = "overrun"]
    /\ UNCHANGED cfg

ClearReq ==
    /\ last.op # "diag"
    /\ \E req \in ClearReqs :
          RecordDiag(req, mbpdu_handle_req(cfg, inst, req, TRUE, EnvOK))

NextClear == WarmupPduReq \/ WarmupAsciiReq \/ HostCharOverrun \/ ClearReq

SpecClear == InitDiag /\ [][NextClear]_vars

(***************************************************************************)
(* Requests with the largest responses (part_002, mbfn_files.c,            *)
(* mbadu_ascii.c)                                                          *)
(***************************************************************************)

\* the size of the response buffer of a PDU
MBPDU_SIZE_MAX == 253

\* a device with coils, discrete inputs and files
SizeCfg ==
    [ FilePduCfg EXCEPT !.coils = WideCoils, !.disc_inputs = WideInputs,
                        !.has_commit_coils_write = TRUE ]

\* n bytes of request data
Filler(n) == [ k \in 1..n |-> (k * 7) % 256 ]

\* Return Query Data requests up to the largest PDU
LoopbackPdus == { << MBFC_DIAGNOSTICS, 0, 0 >> \o Filler(n) : n \in { 0, 1, 2, 249, 250 } }

\* reads of coils and discrete inputs around the largest quantity
BitReadPdus ==
    { << fc, 0, a >> \o u16tobe(q) :
        fc \in { MBFC_READ_COILS, MBFC_READ_DISC_INPUTS }, a \in { 0, 3, 4 },
        q \in { 0, 1, 8, 9, 1999, MBCOIL_N_READ_MAX, MBCOIL_N_READ_MAX + 1 } }

\* requests with a short response or none of a built-in handler
ShortPdus ==
    { << MBFC_COMM_EVENT_COUNTER >>, << MBFC_COMM_EVENT_LOG >>, << 65 >>, << 65, 1, 2 >>,
      << MBFC_DIAGNOSTICS >>, << MBFC_DIAGNOSTICS, 0, 4, 0, 0 >>,
      << MBFC_DIAGNOSTICS, 0, 1, 0, 0 >>, << MBFC_DIAGNOSTICS, 0, 11, 0, 0 >>,
      << MBFC_WRITE_SINGLE_COIL, 0, 0, 255, 0 >>,
      << MBFC_WRITE_MULTIPLE_COILS, 0, 0, 0, 2, 1, 3 >>,
      << MBFC_WRITE_MULTIPLE_COILS, 0, 0, 0, 2, 1 >> }

\* reads of file records: the sub-requests of one request
LongSubReqSeqs ==
    { SubReq(REF_TYPE, 4, 1, l) : l \in { 1, 60, 120, 121, 122 } }
      \cup { SubReq(REF_TYPE, 4, 1, 60) \o SubReq(REF_TYPE, 3, 9, 60),
             SubReq(REF_TYPE, 4, 1, 60) \o SubReq(REF_TYPE, 3, 9, 61),
             SubReq(REF_TYPE, 4, 1, 100) \o SubReq(REF_TYPE, 3, 9, 100),
             SubReq(REF_TYPE, 4, 1, 60) \o SubReq(REF_TYPE, 3, 50, 60),
             SubReq(REF_TYPE, 4, 1, 118) \o SubReq(REF_TYPE, 5, 1, 1),
             SubReq(REF_TYPE, 3, 9, 1) \o SubReq(REF_TYPE, 4, 1, 1)
                \o SubReq(REF_TYPE, 3, 12, 1) \o SubReq(REF_TYPE, 4, 7, 2) }

LongFileReadPdus == { << MBFC_READ_FILE_RECORD, Len(b) >> \o b : b \in LongSubReqSeqs }

SizePdus == LoopbackPdus \cup BitReadPdus \cup ShortPdus \cup LongFileReadPdus
               \cup FileWriteReqs

\* the frames of the requests that mbadu_ascii_handle_req serves
SizeFrames ==
    { ascii_frame(<< a >> \o p, 10) :
        a \in { SlaveAddr, MBADU_ADDR_BROADCAST },
        p \in LoopbackPdus \cup BitReadPdus \cup ShortPdus }

InitSize ==
    /\ cfg = SizeCfg
    /\ \E mem \in 0..15 : inst = [mbinst_init EXCEPT !.coil_mem = mem] @@ [ reg_mem |-> RegMem ]
    /\ pre = inst
    /\ last = NoCall @@ [ env |-> RegEnvOK ]
    /\ calls = 0

\* one request handed to the PDU layer of a device with files
SizePduReq ==
    /\ calls = 0
    /\ \E req \in SizePdus, env \in { RegEnvOK, EnvFail(MB_DEV_FAIL) @@ RegEnvOK } :
          RecordFilePdu(req, env, mbpdu_handle_file_req(cfg, inst, req, env))

\* one frame handed to the ASCII layer
SizeAsciiReq ==
    /\ calls = 0
    /\ calls' = 1
    /\ \E req \in SizeFrames :
          /\ RecordAscii(req, TRUE, mbadu_ascii_handle_req(cfg, inst, req, TRUE, RegEnvOK))

NextSize == SizePduReq \/ SizeAsciiReq

SpecSize == InitSize /\ [][NextSize]_vars

(***************************************************************************)
(* Requests whose range passes address 0xFFFF (mbfn_coils.c)               *)
(***************************************************************************)

\* coils at both ends of the address space, each stored in its own bit
WrapCoils ==
    [ null |-> FALSE,
      d |-> << Coil(0, "ptr", 0, 0, "ptr", 0, FALSE, FALSE, TRUE),
               Coil(1, "ptr", 1, 0, "ptr", 1, FALSE, FALSE, FALSE),
               Coil(2, "val", 0, 1, "none", 0, FALSE, FALSE, FALSE),
               Coil(65534, "ptr", 2, 0, "ptr", 2, FALSE, FALSE, FALSE),
               Coil(65535, "ptr", 3, 0, "ptr", 3, FALSE, FALSE, TRUE) >> ]

\* a file with records at both ends of the record numbers
WrapFile ==
    File(9, [ null |-> FALSE,
              d |-> << RegDesc(0, "ptr", 0, "ptr", 1, FALSE, FALSE, FALSE),
                       RegDesc(1, "val", 57005, "none", 0, FALSE, FALSE, FALSE),
                       RegDesc(65535, "ptr", 0, "ptr", 2, FALSE, FALSE, FALSE) >> ])

WrapCfg ==
    [ CoilCfg EXCEPT !.coils = WrapCoils, !.disc_inputs = WrapCoils ]
       @@ [ files |-> [ null |-> FALSE, d |-> << WrapFile >> ],
            allow_ext_file_recs |-> TRUE, has_commit_regs_write |-> TRUE ]

WrapStarts == { 0, 65533, 65534, 65535 }

WrapBitReqs ==
    { << fc >> \o u16tobe(a) \o u16tobe(q) :
        fc \in { MBFC_READ_COILS, MBFC_READ_DISC_INPUTS }, a \in WrapStarts, q \in 1..4 }
      \cup { << MBFC_WRITE_MULTIPLE_COILS >> \o u16tobe(a) \o u16tobe(q) \o << 1, v >> :
               a \in WrapStarts, q \in 1..4, v \in { 0, 5, 10, 15 } }

WrapFileReqs ==
    { << MBFC_READ_FILE_RECORD, 7 >> \o SubReq(REF_TYPE, 9, r, l) :
        r \in WrapStarts, l \in 1..3 }
      \cup { << MBFC_WRITE_FILE_RECORD, 7 + 2 * l >>
                \o WSubReq(REF_TYPE, 9, r, l, SubSeq(<< 18, 52, 171, 205, 0, 7 >>, 1, 2 * l)) :
               r \in WrapStarts, l \in 1..3 }

InitWrap ==
    /\ cfg = WrapCfg
    /\ \E mem \in 0..15 : inst = [mbinst_init EXCEPT !.coil_mem = mem] @@ [ reg_mem |-> RegMem ]
    /\ pre = inst
    /\ last = NoCall @@ [ env |-> RegEnvOK ]
    /\ calls = 0

\* one read or write of coils or discrete inputs
WrapBitReq ==
    /\ calls = 0
    /\ \E req \in WrapBitReqs :
          RecordCoils(req, RegEnvOK, mbpdu_handle_req(cfg, inst, req, TRUE, RegEnvOK))

\* one read or write of file records
WrapFileReq ==
    /\ calls = 0
    /\ \E req \in WrapFileReqs :
          RecordFilePdu(req, RegEnvOK, mbpdu_handle_file_req(cfg, inst, req, RegEnvOK))

NextWrap == WrapBitReq \/ WrapFileReq

SpecWrap == InitWrap /\ [][NextWrap]_vars

(***************************************************************************)
(* Properties                                                              *)
(***************************************************************************)
\* the nine diagnostic counters of an instance
Counters(s) == [n \in CounterNames |-> s[n]]

ZeroCounters == [n \in CounterNames |-> 0]

\* the event log of s1 is the event log of s0 after one append of event
Appended(s0, s1, event) ==
    /\ s1.hist = Append(s0.hist, event)
    /\ s1.event_log = [s0.event_log EXCEPT ![s0.event_log_write_pos] = event]
    /\ s1.event_log_write_pos = (s0.event_log_write_pos + 1) % 64
    /\ s1.event_log_count = IF s0.event_log_count < 64
                            THEN s0.event_log_count + 1 ELSE 64

\* the last call was mbpdu_handle_req with valid pointers and a PDU of at
\* least one byte
DirectPdu == (last.op = "pdu") /\ last.nonnull /\ (Len(last.req) >= 1)

\* req is FC 0x08 with sub-function 0x0001
IsRestart(req) ==
    (Len(req) >= 3) /\ (req[1] = 8) /\ (req[2] = 0) /\ (req[3] = 1)

\* C1: in listen-only mode a PDU request that is not FC 0x08 sub-function
\* 0x0001 (requests shorter than 3 bytes included) makes mbpdu_handle_req
\* return 0, leaves all nine counters unchanged and appends exactly one
\* event byte 0x60 (IS_SEND | SEND_LISTEN_ONLY) to the event log.
C1_ListenOnlyGate ==
    (DirectPdu /\ pre.is_listen_only /\ ~IsRestart(last.req))
    => /\ last.ret = 0
       /\ Counters(inst) = Counters(pre)
       /\ Appended(pre, inst, 96)
       /\ inst.is_listen_only

\* a coil write was dropped in listen-only mode, after earlier events
C1_Witness ==
    /\ DirectPdu /\ pre.is_listen_only
    /\ last.req = << 5, 0, 1, 255, 0 >>
    /\ last.ret = 0
    /\ Appended(pre, inst, 96)
    /\ pre.hist # << >>

\* the response to an FC 0x0C request made in the current state
FollowingEventLog == mbpdu_handle_req(cfg, inst, << 12 >>, TRUE, EnvOK)

\* the last call was FC 0x08 sub 0x01 data 0xFF00 on a listen-only instance
RestartClearInListenOnly ==
    DirectPdu /\ pre.is_listen_only /\ (last.req = << 8, 0, 1, 255, 0 >>)

\* C2 (as the code has it): FC 0x08 sub 0x01 data 0xFF00 on a listen-only
\* instance clears listen-only and zeroes all counters and the event log,
\* but mbpdu_handle_req returns 0 (no response: the instance was listen-only
\* at entry) and the send event 0x60 of the restart itself is logged after
\* the clear, so an immediately following FC 0x0C returns byte count 7 and
\* that one event.
C2_RestartInListenOnly ==
    RestartClearInListenOnly
    => /\ ~inst.is_listen_only
       /\ Counters(inst) = ZeroCounters
       /\ last.ret = 0
       /\ inst.hist = << 96 >>
       /\ inst.event_log_count = 1
       /\ inst.event_log_write_pos = 1
       /\ inst.event_log[0] = 96
       /\ FollowingEventLog.len = 9
       /\ FollowingEventLog.res = << 12, 7, 0, 0, 0, 0, 0, 0, 96 >>

\* the restart happened after the log had gathered earlier events
C2_Witness ==
    RestartClearInListenOnly /\ (Len(pre.hist) >= 2) /\ (pre.msg_counter > 0)
    /\ (inst.hist = << 96 >>)

\* C2 as stated: the restart is answered (non-zero length) and an
\* immediately following FC 0x0C returns byte count 6, no events.
C2_AsStated ==
    RestartClearInListenOnly
    => /\ ~inst.is_listen_only
       /\ Counters(inst) = ZeroCounters
       /\ last.ret # 0
       /\ inst.event_log_count = 0
       /\ At(FollowingEventLog.res, 1) = 6

\* C3: mbpdu_handle_req returns a non-zero length only if the instance was
\* not listen-only at entry and is not listen-only at exit; a successful
\* Force Listen Only (FC 0x08 sub 0x04 data 0) sets is_listen_only, appends
\* ENTERED_LISTEN_ONLY (0x04) and gets no response.
C3_NoResponseInListenOnly ==
    /\ (last.pdu_len # 0) => (~pre.is_listen_only /\ ~inst.is_listen_only)
    /\ (DirectPdu /\ ~pre.is_listen_only /\ (last.req = << 8, 0, 4, 0, 0 >>))
       => /\ last.st = MB_OK
          /\ inst.is_listen_only
          /\ last.ret = 0
          /\ inst.hist = pre.hist \o << 4, 64 >>

\* Force Listen Only was accepted
C3_Witness ==
    /\ DirectPdu /\ ~pre.is_listen_only /\ (last.req = << 8, 0, 4, 0, 0 >>)
    /\ inst.is_listen_only /\ (last.ret = 0)
    /\ (inst.event_log[pre.event_log_write_pos] = 4)

\* the callbacks that write, post-write or commit, and the fallback handler
WriteCallbacks ==
    { "write.fn", "post_write_cb", "commit_coils_write_cb", "handle_fn_cb" }

\* C4: while is_listen_only is set no request changes coil storage or
\* invokes a write, post-write or commit callback; the only handler that
\* can run is the diagnostics handler of sub-function 0x01.
C4_ListenOnlyNoWrites ==
    ((last.op # "init") /\ pre.is_listen_only)
    => /\ inst.coil_mem = pre.coil_mem
       /\ \A i \in 1..Len(last.cbs) : last.cbs[i][1] \notin WriteCallbacks
       /\ last.fn \in { "none", "restart_comms_opt" }
       /\ (last.fn = "restart_comms_opt") => IsRestart(last.pdu)

\* a write of coils 0..1 arrived in listen-only mode and changed nothing
C4_Witness ==
    /\ DirectPdu /\ pre.is_listen_only
    /\ last.req = << 15, 0, 0, 0, 2, 1, 3 >>
    /\ inst.coil_mem = pre.coil_mem
    /\ last.cbs = << >>

\* C5: outside listen-only mode a request whose handler status is not OK
\* gets exactly the 2-byte response [fc|0x80, status], increments
\* exception_counter by 1, nak_counter only for NEG_ACK and busy_counter only
\* for BUSY; an unimplemented function code, or one whose descriptor table
\* is NULL, has status ILLEGAL_FN when there is no handle_fn fallback.
C5_ExceptionResponse ==
    /\ ((last.path = "handled") /\ ~pre.is_listen_only /\ (last.st # MB_OK))
       => /\ last.pdu_res = << BitOr(last.pdu[1], 128), last.st >>
          /\ last.pdu_len = 2
          /\ inst.exception_counter = pre.exception_counter + 1
          /\ inst.nak_counter = pre.nak_counter + (IF last.st = 7 THEN 1 ELSE 0)
          /\ inst.busy_counter = pre.busy_counter + (IF last.st = 6 THEN 1 ELSE 0)
    /\ (DirectPdu /\ ~pre.is_listen_only /\ ~cfg.has_handle_fn
        /\ (last.req[1] \in { 3, 43 }))
       => (last.st = MB_ILLEGAL_FN) /\ (last.res = << last.req[1] + 128, 1 >>)

\* the fallback answered NEG_ACK after an earlier exception
C5_Witness ==
    /\ DirectPdu /\ ~pre.is_listen_only /\ (last.st = MB_NEG_ACK)
    /\ last.res = << 171, 7 >>
    /\ pre.exception_counter = 1 /\ inst.exception_counter = 2
    /\ inst.nak_counter = pre.nak_counter + 1

\* C6: a processed request increments comm_event_counter by exactly 1 iff
\* its status is OK and its function code is none of 0x08, 0x0B, 0x0C;
\* exceptions, diagnostics, event-counter and event-log requests and the
\* requests dropped by the listen-only gate never increment it.
C6_CommEventCounter ==
    (last.path \in { "handled", "gated" })
    => IF (last.path = "handled") /\ (last.st = MB_OK)
          /\ (last.pdu[1] \notin { 8, 11, 12 })
       THEN inst.comm_event_counter = pre.comm_event_counter + 1
       ELSE IF (last.path = "handled") /\ (last.pdu[1] = 8)
       THEN inst.comm_event_counter \in { pre.comm_event_counter, 0 }
       ELSE inst.comm_event_counter = pre.comm_event_counter

\* a second successful coil request was counted
C6_Witness ==
    /\ last.path = "handled" /\ last.st = MB_OK /\ last.pdu[1] = 1
    /\ pre.comm_event_counter = 1 /\ inst.comm_event_counter = 2

\* the last call was a valid Restart Communications Option request
ValidRestart ==
    DirectPdu /\ (last.req \in { << 8, 0, 1, 0, 0 >>, << 8, 0, 1, 255, 0 >> })

\* C7: a valid Restart Communications Option request invokes the restart
\* callback if present, clears is_listen_only and leaves all nine counters
\* at 0 when mbpdu_handle_req returns (msg_counter included); data 0xFF00
\* empties the event log, data 0x0000 keeps the entries and appends
\* COMM_RESTART (0x00); the response echoes the data.
C7_Restart ==
    ValidRestart
    => /\ last.st = MB_OK
       /\ last.cbs = (IF cfg.has_request_restart
                      THEN << << "request_restart", 0, 0 >> >> ELSE << >>)
       /\ ~inst.is_listen_only
       /\ Counters(inst) = ZeroCounters
       /\ last.res = last.req
       /\ last.ret = (IF pre.is_listen_only THEN 0 ELSE 5)
       /\ inst.hist = (IF last.req[4] = 255 THEN << >> ELSE pre.hist \o << 0 >>)
                         \o << IF pre.is_listen_only THEN 96 ELSE 64 >>
       /\ (last.req[4] = 255)
          => (inst.event_log_count = 1) /\ (inst.event_log_write_pos = 1)
       /\ (last.req[4] = 0)
          => /\ inst.event_log_count = (IF pre.event_log_count + 2 < 64
                                        THEN pre.event_log_count + 2 ELSE 64)
             /\ inst.event_log_write_pos = (pre.event_log_write_pos + 2) % 64
             /\ inst.event_log[pre.event_log_write_pos] = 0
             /\ \A i \in 0..63 :
                   (i \notin { pre.event_log_write_pos,
                               (pre.event_log_write_pos + 1) % 64 })
                   => (inst.event_log[i] = pre.event_log[i])

\* a restart that keeps the log, after two counted requests
C7_Witness ==
    /\ ValidRestart /\ (last.req[4] = 0)
    /\ pre.msg_counter = 2 /\ pre.comm_event_counter > 0
    /\ Len(pre.hist) = 2 /\ Len(inst.hist) = 4
    /\ Counters(inst) = ZeroCounters

\* the last call was mbadu_ascii_handle_req with a frame that passed the
\* size, shape, hex and LRC checks and carries the address a
AsciiValidTo(a) ==
    (last.op = "ascii") /\ last.nonnull /\ (last.adu = "dispatched") /\ (last.addr = a)

\* pdu resets the counters when it gets to its handler: a valid restart, or
\* outside listen-only mode a valid Clear Counters and Diagnostic Register
ResetsCounters(pdu, was_listen_only) ==
    \/ pdu \in { << 8, 0, 1, 0, 0 >>, << 8, 0, 1, 255, 0 >> }
    \/ (~was_listen_only /\ (pdu = << 8, 0, 10, 0, 0 >>))

\* C9 (as the code has it): a valid ASCII frame addressed to slave_addr or to
\* broadcast leaves bus_msg_counter at its value before the call plus 1,
\* except when the PDU it carries resets the counters (FC 0x08 sub 0x01, or
\* sub 0x0A outside listen-only mode): then the counter reads 0 on return.
C9_BusMsgCounter ==
    (AsciiValidTo(cfg.slave_addr) \/ AsciiValidTo(0))
    => inst.bus_msg_counter =
          (IF ResetsCounters(last.pdu, pre.is_listen_only)
           THEN 0 ELSE pre.bus_msg_counter + 1)

\* a restart frame arrived after two counted frames
C9_Witness ==
    /\ AsciiValidTo(cfg.slave_addr)
    /\ last.pdu = << 8, 0, 1, 0, 0 >>
    /\ pre.bus_msg_counter = 2
    /\ inst.bus_msg_counter = 0

\* C9 as stated: bus_msg_counter is its value before the call plus 1,
\* whatever PDU the frame carries.
C9_AsStated ==
    (AsciiValidTo(cfg.slave_addr) \/ AsciiValidTo(0))
    => (inst.bus_msg_counter = pre.bus_msg_counter + 1)

\* C10 (as the code has it): a valid ASCII frame to address 0 has its PDU
\* handed to mbpdu_handle_req and the returned frame length is 0 whether
\* the outcome is success or an exception.  Outside listen-only mode
\* msg_counter counts it and a coil write is applied; in listen-only mode
\* the PDU layer drops all but a restart.  no_resp_counter is incremented
\* after the PDU is handled, so it reads 1 and msg_counter reads 0 when the
\* PDU resets the counters.
C10_Broadcast ==
    AsciiValidTo(0)
    => /\ last.ret = 0
       /\ last.res = << >>
       /\ last.path \in { "handled", "gated" }
       /\ (last.path = "gated") <=> (pre.is_listen_only /\ ~IsRestart(last.pdu))
       /\ (last.path = "handled") => (last.st \in MB_OK..MB_MEM_PAR_ERR)
       /\ inst.no_resp_counter =
             (IF ResetsCounters(last.pdu, pre.is_listen_only)
              THEN 1 ELSE pre.no_resp_counter + 1)
       /\ inst.msg_counter =
             (IF ResetsCounters(last.pdu, pre.is_listen_only) THEN 0
              ELSE IF pre.is_listen_only THEN pre.msg_counter
              ELSE pre.msg_counter + 1)
       /\ (pre.is_listen_only /\ ~IsRestart(last.pdu))
          => (inst.coil_mem = pre.coil_mem)
       /\ (~pre.is_listen_only /\ ~cfg.coils.null /\ (last.pdu = << 5, 0, 0, 255, 0 >>))
          => (last.st = MB_OK) /\ (inst.coil_mem = BitOr(pre.coil_mem, 1))

\* a broadcast coil write was applied and not answered
C10_Witness ==
    /\ AsciiValidTo(0)
    /\ last.pdu = << 5, 0, 0, 255, 0 >>
    /\ pre.coil_mem = 0 /\ inst.coil_mem = 1
    /\ last.ret = 0 /\ last.pdu_len = 5
    /\ inst.no_resp_counter = pre.no_resp_counter + 1

\* C10 as stated: msg_counter counts the PDU of every valid broadcast frame,
\* the returned length is 0 and no_resp_counter is incremented by 1.
C10_AsStated ==
    AsciiValidTo(0)
    => /\ last.ret = 0
       /\ inst.msg_counter = pre.msg_counter + 1
       /\ inst.no_resp_counter = pre.no_resp_counter + 1

\* the n newest events of the history h, newest first
NewestFirst(h, n) == [i \in 1..n |-> h[Len(h) + 1 - i]]

\* the number of events FC 0x0C returns from an instance: min(appends, 64)
Kept(s) == IF Len(s.hist) < 64 THEN Len(s.hist) ELSE 64

\* the last call was an FC 0x0C request that reached its handler
LogRead == DirectPdu /\ (last.req = << 12 >>) /\ (last.path = "handled")

\* C8: after any sequence of appends and clears event_log_count is
\* min(appends since the last clear, 64) and write_pos is within 0..63;
\* FC 0x0C returns byte count 6+count, status, comm_event_counter,
\* bus_msg_counter and then the count newest events, newest first, the
\* i-th of them buffer[(write_pos + 63 - i) mod 64]: after more than 64
\* appends exactly the last 64, and none from before a restart-with-clear.
C8_EventLog ==
    /\ inst.event_log_count = Kept(inst)
    /\ inst.event_log_write_pos \in 0..63
    /\ inst.event_log_write_pos = Len(inst.hist) % 64
    /\ LogRead
       => /\ last.st = MB_OK
          /\ last.res = << 12, 6 + Kept(pre),
                           pre.status \div 256, pre.status % 256,
                           pre.comm_event_counter \div 256, pre.comm_event_counter % 256,
                           pre.bus_msg_counter \div 256, pre.bus_msg_counter % 256 >>
                         \o NewestFirst(pre.hist, Kept(pre))
          /\ \A i \in 0..(Kept(pre) - 1) :
                last.res[9 + i] = pre.event_log[(pre.event_log_write_pos + 63 - i) % 64]
          /\ last.ret = (IF pre.is_listen_only THEN 0 ELSE 8 + Kept(pre))

\* the log was read after more than 64 appends, its two newest entries
\* differing
C8_Witness ==
    /\ LogRead
    /\ Len(pre.hist) > 64
    /\ last.res[2] = 70
    /\ Len(last.res) = 72
    /\ last.res[9] # last.res[10]
    /\ calls > 1
    /\ pre.event_log_write_pos < 4

\* the last call was mbadu_ascii_handle_req with valid pointers
AsciiCall == (last.op = "ascii") /\ last.nonnull

\* C11: an ASCII frame of valid shape and hex digits but wrong LRC returns
\* length 0 (no exception response), increments bus_comm_err_counter by
\* exactly 1, appends one receive event with RECV_COMM_ERR set and is never
\* dispatched (msg_counter and the data model unchanged), whatever its
\* slave address: the LRC is checked before the address filter.
C11_WrongLrc ==
    (AsciiCall /\ (last.req \in WrongLrcFrames))
    => /\ last.adu = "lrc"
       /\ last.ret = 0
       /\ last.res = << >>
       /\ last.path = "none"
       /\ inst.bus_comm_err_counter = pre.bus_comm_err_counter + 1
       /\ Appended(pre, inst, IF pre.is_listen_only THEN 162 ELSE 130)
       /\ inst.msg_counter = pre.msg_counter
       /\ inst.exception_counter = pre.exception_counter
       /\ inst.no_resp_counter = pre.no_resp_counter
       /\ inst.coil_mem = pre.coil_mem
       /\ inst.is_listen_only = pre.is_listen_only

\* a frame for another device arrived with a wrong LRC, after a coil was set
C11_Witness ==
    /\ AsciiCall /\ (last.req \in WrongLrcFrames)
    /\ last.addr = 5
    /\ pre.coil_mem = 1
    /\ inst.bus_comm_err_counter = 1
    /\ inst.event_log[pre.event_log_write_pos] = 130

\* the address a is one this device answers to
Accepted(a) ==
    (a = cfg.slave_addr) \/ (a = 0) \/ ((a = 248) /\ cfg.enable_def_resp)

\* C12: an ASCII frame that passes the LRC check is dispatched to the PDU
\* layer iff its address byte is slave_addr, or 0, or 0xF8 while
\* enable_def_resp is set; every other frame returns 0 and leaves
\* msg_counter, no_resp_counter and the data model unchanged.
C12_AddressFilter ==
    (AsciiCall /\ (last.req \in IntactFrames))
    => /\ last.adu \in { "addr", "dispatched" }
       /\ (last.adu = "dispatched") <=> Accepted(last.addr)
       /\ (last.adu = "dispatched") => (last.path \in { "handled", "gated" })
       /\ ~Accepted(last.addr)
          => /\ last.ret = 0
             /\ last.path = "none"
             /\ inst.msg_counter = pre.msg_counter
             /\ inst.no_resp_counter = pre.no_resp_counter
             /\ inst.coil_mem = pre.coil_mem

\* a frame to 0xF8 was not dispatched because enable_def_resp is off
C12_Witness ==
    /\ AsciiCall /\ (last.req \in IntactFrames)
    /\ last.addr = 248 /\ ~cfg.enable_def_resp
    /\ last.adu = "addr"
    /\ last.ret = 0
    /\ pre.msg_counter = 1 /\ inst.msg_counter = 1

\* the frame ":1103006B00037E\r\n" has been handled by a device that was not
\* in listen-only mode
ReadRegsExample ==
    (last.op = "ascii") /\ (last.req = ReadRegsFrame) /\ ~pre.is_listen_only

\* C13: with slave address 17, delimiter LF and holding registers
\* 0x006B .. 0x006D reading 0x4242, the frame ":1103006B00037E\r\n" is
\* answered by the 23 characters ":1103064242424242425A\r\n": the trailer is
\* the two's complement of the sum 11+03+06+6*42 = 1A6, that is 5A.
C13_AsciiReadRegs ==
    ReadRegsExample
        => /\ last.res = << 58, 49, 49, 48, 51, 48, 54, 52, 50, 52, 50, 52, 50, 52, 50,
                            52, 50, 52, 50, 53, 65, 13, 10 >>
           /\ last.ret = 23

\* C13 as stated: the answer is ":1103064242424242423C\r\n"
C13_Original ==
    ReadRegsExample
        => last.res = << 58, 49, 49, 48, 51, 48, 54, 52, 50, 52, 50, 52, 50, 52, 50,
                         52, 50, 52, 50, 51, 67, 13, 10 >>

C13_Witness ==
    /\ last.op = "ascii"
    /\ last.req = ReadRegsFrame
    /\ last.adu = "dispatched"
    /\ last.pdu = << 3, 0, 107, 0, 3 >>
    /\ last.st = MB_OK
    /\ last.ret = 23

\* the decoder took the frame: it passed the shape, hex and LRC checks
FrameAccepted == last.adu \in { "addr", "dispatched" }

\* the bytes the decoder got from the frame, the LRC byte left out
DecodedPayload == SubSeq(last.bin, 1, Len(last.bin) - 1)

\* the character the encoder wrote at the replaced offset
SentChar == At(prep_res(pre, last.payload), last.pos)

\* C14: for any payload P of 3 to 254 bytes the frame prep_res makes of P
\* passes the decoder's shape, hex and LRC checks and decodes to P; a frame
\* that differs from it in one character of the body, the LRC trailer
\* unchanged, is accepted only if the character is the lower-case form of
\* the letter A .. F that was sent, and then it still decodes to P.
C14_RoundTrip ==
    ((last.op = "ascii") /\ (Len(last.payload) >= 3))
        => /\ (last.pos = -1) => (FrameAccepted /\ (DecodedPayload = last.payload))
           /\ ((last.pos # -1) /\ FrameAccepted)
                 => /\ SentChar \in 65..70
                    /\ At(last.req, last.pos) = SentChar + 32
                    /\ DecodedPayload = last.payload
           /\ ((last.pos # -1) /\ (SentChar \in 65..70)
                 /\ (At(last.req, last.pos) = SentChar + 32)) => FrameAccepted

\* an intact frame was accepted, and so was a frame with a letter of the
\* body in lower case
C14_Witness ==
    /\ last.op = "ascii"
    /\ Len(last.payload) >= 3
    /\ last.pos # -1
    /\ FrameAccepted
    /\ last.req # prep_res(pre, last.payload)
    /\ DecodedPayload = last.payload

\* C14 as stated: for any payload the frame is accepted and decodes to the
\* payload, and no frame with one character of the body replaced is accepted
C14_Original ==
    (last.op = "ascii")
        => /\ (last.pos = -1) => (FrameAccepted /\ (DecodedPayload = last.payload))
           /\ (last.pos # -1) => ~FrameAccepted

\* the table a coil function code works on
TableOf(fc) == IF fc = MBFC_READ_DISC_INPUTS THEN cfg.disc_inputs ELSE cfg.coils

HasDesc(t, a) == \E k \in 1..Len(t.d) : t.d[k].address = a

DescAt(t, a) == t.d[CHOOSE k \in 1..Len(t.d) : t.d[k].address = a]

\* the read-lock predicate of the coil at address a returns true
ReadLocked(t, a, env) == HasDesc(t, a) /\ DescAt(t, a).rlock_cb /\ env.rlock

\* the coil at address a has read access and its source says ON
ReadsOn(t, a, s, env) ==
    /\ HasDesc(t, a)
    /\ CASE DescAt(t, a).r = "val" -> DescAt(t, a).val # 0
         [] DescAt(t, a).r = "ptr" ->
                (s.coil_mem \div (2 ^ DescAt(t, a).rix)) % 2 = 1
         [] DescAt(t, a).r = "fn" -> env.rfn # 0
         [] OTHER -> FALSE

\* bit i of the data of a read response
DataBit(res, i) == (res[3 + i \div 8] \div (2 ^ (i % 8))) % 2

ExceptionOf(req, code) == << At(req, 0) + 128, code >>

\* a five-byte FC 0x01 / 0x02 request was handled
ReadCoilsCall ==
    /\ last.op = "pdu"
    /\ At(last.req, 0) \in { MBFC_READ_COILS, MBFC_READ_DISC_INPUTS }
    /\ Len(last.req) = 5
    /\ ~pre.is_listen_only

\* the packed answer to a read of q coils from address a on
ReadCoilsData(t, a, q, res) ==
    /\ Len(res) = 2 + (q + 7) \div 8
    /\ res[2] = (q + 7) \div 8
    /\ \A i \in 0..(8 * ((q + 7) \div 8) - 1) :
          (DataBit(res, i) = 1) <=> ((i < q) /\ ReadsOn(t, a + i, pre, last.env))

Without(t, a) == [t EXCEPT !.d = SelectSeq(t.d, LAMBDA x : x.address # a)]

\* the configuration whose table for function code fc lacks address a
CfgWithout(fc, a) ==
    IF fc = MBFC_READ_DISC_INPUTS
    THEN [cfg EXCEPT !.disc_inputs = Without(cfg.disc_inputs, a)]
    ELSE [cfg EXCEPT !.coils = Without(cfg.coils, a)]

\* the response to the last request had the descriptor of address a been
\* absent from the table
ResponseWithout(a) ==
    mbpdu_handle_req(CfgWithout(At(last.req, 0), a), pre, last.req, TRUE, last.env).res

\* C16: for a read request (FC 0x01 / 0x02) and any coil it addresses, the
\* response when the coil's read-lock predicate returns true is the response
\* when the coil's descriptor is absent from the table, ILLEGAL_DATA_ADDR in
\* both cases, so that a client cannot tell a locked coil from a missing one.
C16_LockedAsMissing ==
    (ReadCoilsCall /\ (betou16(last.req, 3) \in 1..2000))
        => \A i \in 0..(betou16(last.req, 3) - 1) :
              ReadLocked(TableOf(At(last.req, 0)), betou16(last.req, 1) + i, last.env)
                 => /\ last.res = ResponseWithout(betou16(last.req, 1) + i)
                    /\ last.res = ExceptionOf(last.req, MB_ILLEGAL_DATA_ADDR)

\* the write-lock predicate of the coil at address a returns true
WriteLocked(t, a, env) == HasDesc(t, a) /\ DescAt(t, a).wlock_cb /\ env.wlock

\* the request wrote nothing: the coil storage is as before and no write,
\* post-write or commit callback was invoked
NothingWritten == (inst.coil_mem = pre.coil_mem) /\ (last.cbs = << >>)

\* an FC 0x0F request with a quantity in 1..1968, the matching byte count
\* and length was handled
WriteCoilsCall ==
    /\ last.op = "pdu"
    /\ At(last.req, 0) = MBFC_WRITE_MULTIPLE_COILS
    /\ Len(last.req) >= 7
    /\ betou16(last.req, 3) \in 1..1968
    /\ At(last.req, 5) = (betou16(last.req, 3) + 7) \div 8
    /\ Len(last.req) = 6 + At(last.req, 5)
    /\ ~pre.is_listen_only

\* the addresses an FC 0x0F request names
WriteRange == { betou16(last.req, 1) + i : i \in 0..(betou16(last.req, 3) - 1) }

\* C17: FC 0x0F is atomic with respect to validation: if any coil of the
\* range start_addr .. start_addr+qty-1 has no descriptor or its write-lock
\* predicate returns true, the response is the exception ILLEGAL_DATA_ADDR,
\* no coil storage is changed, and no write, post-write or commit callback
\* is invoked.
C17_WriteCoilsValidation ==
    (WriteCoilsCall
       /\ \E a \in WriteRange : ~HasDesc(cfg.coils, a) \/ WriteLocked(cfg.coils, a, last.env))
        => /\ last.res = ExceptionOf(last.req, MB_ILLEGAL_DATA_ADDR)
           /\ NothingWritten

\* coils 0 and 1 are to be set, coil 1 is write-locked: coil 0 stays OFF
C17_Witness ==
    /\ WriteCoilsCall
    /\ last.req = << 15, 0, 0, 0, 2, 1, 7 >>
    /\ last.env.wlock
    /\ pre.coil_mem = 0
    /\ last.res = << 143, 2 >>
    /\ NothingWritten

\* C18: the pre-validation of FC 0x0F establishes that every target coil is
\* writable before any write: if a coil descriptor of the range has no
\* write mode (a read-only coil), no coil of the range is modified.
C18_ReadOnlyBlocksAll ==
    (WriteCoilsCall
       /\ \E a \in WriteRange : HasDesc(cfg.coils, a) /\ (DescAt(cfg.coils, a).w = "none"))
        => NothingWritten

\* an FC 0x05 request of five bytes was handled
WriteCoilCall ==
    /\ last.op = "pdu"
    /\ At(last.req, 0) = MBFC_WRITE_SINGLE_COIL
    /\ Len(last.req) = 5
    /\ ~pre.is_listen_only

\* neither the post-write nor the commit callback was invoked
NoWriteHooks ==
    \A k \in 1..Len(last.cbs) :
        last.cbs[k][1] \notin { "post_write_cb", "commit_coils_write_cb" }

\* the coil storage with bit ix set to on, the other bits as in mem
WithBit(mem, ix, on) ==
    mem - ((mem \div (2 ^ ix)) % 2) * (2 ^ ix) + (IF on THEN 2 ^ ix ELSE 0)

\* the response to an FC 0x01 read of the one coil at address a that follows
\* the last call, no lock firing
FollowingRead(a) ==
    mbpdu_handle_req(cfg, inst, << MBFC_READ_COILS >> \o u16tobe(a) \o << 0, 1 >>,
                     TRUE, EnvOK).res

\* C19: FC 0x05 with value 0xFF00 or 0x0000 on an existing, unlocked coil
\* that is read and written through a bit pointer stores ON or OFF, answers
\* with an echo of the five request bytes, and a following FC 0x01 read of
\* the address returns the written state; any other value gives
\* ILLEGAL_DATA_VAL and a missing or write-locked coil gives
\* ILLEGAL_DATA_ADDR, both with the coil storage unchanged and neither the
\* post-write nor the commit callback invoked.
C19_WriteCoil ==
    WriteCoilCall =>
        LET a == betou16(last.req, 1)
            v == betou16(last.req, 3)
        IN  /\ (v \notin { 65280, 0 })
                  => /\ last.res = ExceptionOf(last.req, MB_ILLEGAL_DATA_VAL)
                     /\ inst.coil_mem = pre.coil_mem
                     /\ NoWriteHooks
            /\ ((v \in { 65280, 0 })
                  /\ (~HasDesc(cfg.coils, a) \/ WriteLocked(cfg.coils, a, last.env)))
                  => /\ last.res = ExceptionOf(last.req, MB_ILLEGAL_DATA_ADDR)
                     /\ inst.coil_mem = pre.coil_mem
                     /\ NoWriteHooks
            /\ ((v \in { 65280, 0 }) /\ HasDesc(cfg.coils, a)
                  /\ ~WriteLocked(cfg.coils, a, last.env)
                  /\ (DescAt(cfg.coils, a).w = "ptr"))
                  => /\ last.res = last.req
                     /\ last.ret = 5
                     /\ inst.coil_mem
                          = WithBit(pre.coil_mem, DescAt(cfg.coils, a).wix, v = 65280)
                     /\ ((DescAt(cfg.coils, a).r = "ptr")
                           /\ (DescAt(cfg.coils, a).rix = DescAt(cfg.coils, a).wix))
                          => FollowingRead(a) = << 1, 1, IF v = 65280 THEN 1 ELSE 0 >>

\* coil 9, bit 3 of a storage holding 0x05, is set: the storage holds 0x0D,
\* the request is echoed and the coil reads ON
C19_Witness ==
    /\ WriteCoilCall
    /\ last.req = << 5, 0, 9, 255, 0 >>
    /\ pre.coil_mem = 5
    /\ inst.coil_mem = 13
    /\ last.res = << 5, 0, 9, 255, 0 >>
    /\ FollowingRead(9) = << 1, 1, 1 >>

\* the number of sub-requests of the last FC 0x14 request
NSubReqs == (Len(last.req) - 2) \div 7

\* field at offset o (1, 3 or 5) of sub-request k of the last request
SubField(k, o) == betou16(last.req, 2 + 7 * k + o)

HasFile(n) == \E i \in 1..Len(cfg.files.d) : cfg.files.d[i].file_no = n

RecordsOf(n) == cfg.files.d[CHOOSE i \in 1..Len(cfg.files.d) : cfg.files.d[i].file_no = n].records

\* the word record r of file n reads: its value, 0 if there is no such record
RecordWord(n, r) == IF HasDesc(RecordsOf(n), r) THEN DescAt(RecordsOf(n), r).val ELSE 0

\* the bytes the sub-responses 0 .. k-1 take
RECURSIVE SubRespBytes(_)
SubRespBytes(k) == IF k = 0 THEN 0 ELSE SubRespBytes(k - 1) + 2 + 2 * SubField(k - 1, 5)

\* an FC 0x14 request that passes every validation: a byte count of 7 .. 245
\* that is a multiple of 7 and fits the length, reference type 6, existing
\* files, record numbers up to 9999, record lengths of at least 1, an
\* existing first record, and a response of at most 245 data bytes
ValidFileRead ==
    /\ last.op = "file"
    /\ Len(last.req) >= 9
    /\ At(last.req, 1) = Len(last.req) - 2
    /\ At(last.req, 1) % 7 = 0
    /\ At(last.req, 1) <= 245
    /\ \A k \in 0..(NSubReqs - 1) :
          /\ At(last.req, 2 + 7 * k) = 6
          /\ HasFile(SubField(k, 1))
          /\ SubField(k, 3) <= 9999
          /\ SubField(k, 5) >= 1
          /\ HasDesc(RecordsOf(SubField(k, 1)), SubField(k, 3))
    /\ SubRespBytes(NSubReqs) <= 245

\* 14 0E 06 00 04 00 01 00 02 06 00 03 00 09 00 02
FileReadExample == << 20, 14, 6, 0, 4, 0, 1, 0, 2, 6, 0, 3, 0, 9, 0, 2 >>

\* C20: for a valid FC 0x14 request with N sub-requests the response is
\* [0x14, B] followed, in request order, by one sub-response per sub-request:
\* the length byte 1+2*rec_len, the reference type 0x06 and rec_len
\* big-endian words; B is the sum over the sub-requests of 2+2*rec_len and
\* the returned length is 2+B.  The request 14 0E 06 00 04 00 01 00 02 06
\* 00 03 00 09 00 02 yields 14 0C 05 06 12 34 AB CD 05 06 DE AD BE EF.
C20_FileRead ==
    ValidFileRead
        => /\ last.st = MB_OK
           /\ last.res[1] = 20
           /\ last.res[2] = SubRespBytes(NSubReqs)
           /\ last.ret = 2 + SubRespBytes(NSubReqs)
           /\ Len(last.res) = last.ret
           /\ \A k \in 0..(NSubReqs - 1) :
                 /\ At(last.res, 2 + SubRespBytes(k)) = 1 + 2 * SubField(k, 5)
                 /\ At(last.res, 3 + SubRespBytes(k)) = 6
                 /\ \A w \in 0..(SubField(k, 5) - 1) :
                       betou16(last.res, 4 + SubRespBytes(k) + 2 * w)
                          = RecordWord(SubField(k, 1), SubField(k, 3) + w)
           /\ (last.req = FileReadExample)
                 => (last.res = << 20, 12, 5, 6, 18, 52, 171, 205, 5, 6, 222, 173, 190, 239 >>)

\* the example request has been answered
C20_Witness ==
    /\ ValidFileRead
    /\ last.req = FileReadExample
    /\ last.st = MB_OK
    /\ last.ret = 14

\* a call of mbpdu_handle_req whose request of function code fc reached its
\* handler
FilePduCall(fc) ==
    /\ last.op = "pdu"
    /\ last.path = "handled"
    /\ At(last.req, 0) = fc

\* no record was written and no write callback, hook or commit was invoked
NoRecordWritten ==
    /\ inst.reg_mem = pre.reg_mem
    /\ last.cbs = << >>

\* the offsets, from the first sub-request, of the write sub-requests that a
\* walk by the declared record lengths finds in the last request
RECURSIVE WSubOffsets(_)
WSubOffsets(offs) ==
    IF At(last.req, 1) - offs < 7 THEN { }
    ELSE { offs } \cup WSubOffsets(offs + 7 + 2 * betou16(last.req, 2 + offs + 5))

\* field at offset o (1, 3 or 5) of the write sub-request at offs
WSubField(offs, o) == betou16(last.req, 2 + offs + o)

\* the sub-request at offs declares more record data than remains
WSubOverlong(offs) == 2 * WSubField(offs, 5) > (At(last.req, 1) - offs) - 7

\* record r of file n is there and a write to it is allowed
RecordWritable(n, r) ==
    /\ HasFile(n)
    /\ HasDesc(RecordsOf(n), r)
    /\ DescAt(RecordsOf(n), r).w # "none"
    /\ ~(DescAt(RecordsOf(n), r).wlock_cb /\ last.env.wlock)

\* the sub-request at offs passes every validation of FC 0x15
WSubValid(offs) ==
    /\ At(last.req, 2 + offs) = 6
    /\ WSubField(offs, 1) # 0
    /\ WSubField(offs, 3) <= 9999
    /\ WSubField(offs, 5) >= 1
    /\ ~WSubOverlong(offs)
    /\ \A w \in 0..(WSubField(offs, 5) - 1) :
          RecordWritable(WSubField(offs, 1), (WSubField(offs, 3) + w) % 65536)

\* the byte count of an FC 0x14 request is out of shape
ReadByteCountBad ==
    /\ Len(last.req) >= 2
    /\ \/ At(last.req, 1) < 7
       \/ At(last.req, 1) > 245
       \/ At(last.req, 1) % 7 # 0
       \/ At(last.req, 1) # Len(last.req) - 2

\* the byte count of an FC 0x15 request is out of shape
WriteByteCountBad ==
    /\ Len(last.req) >= 2
    /\ \/ At(last.req, 1) < 9
       \/ At(last.req, 1) # Len(last.req) - 2

\* C21 as stated: an FC 0x14 request whose byte count is below 7, above 245,
\* not a multiple of 7 or different from req_len-2, and an FC 0x15 request
\* whose byte count is below 9, different from req_len-2, or one of whose
\* sub-requests declares more record data than remains, yield
\* ILLEGAL_DATA_VAL and write nothing
C21_Original ==
    /\ (FilePduCall(MBFC_READ_FILE_RECORD) /\ ReadByteCountBad)
          => (last.st = MB_ILLEGAL_DATA_VAL /\ NoRecordWritten)
    /\ (FilePduCall(MBFC_WRITE_FILE_RECORD)
          /\ (WriteByteCountBad \/ \E offs \in WSubOffsets(0) : WSubOverlong(offs)))
          => (last.st = MB_ILLEGAL_DATA_VAL /\ NoRecordWritten)

\* C21: an FC 0x14 request whose byte count is below 7, above 245, not a
\* multiple of 7 or different from req_len-2 yields ILLEGAL_DATA_VAL; so does
\* an FC 0x15 request whose byte count is below 9 or different from
\* req_len-2, or in which a sub-request with reference type 6, a non-zero
\* file number and a record number up to 9999 declares more record data than
\* remains while every sub-request before it is valid; an FC 0x15 request
\* with any sub-request declaring more record data than remains is refused
\* (with ILLEGAL_DATA_VAL or ILLEGAL_DATA_ADDR); in all these cases nothing
\* is written.  An FC 0x14 request of byte count 7 with one well-formed
\* sub-request whose response fits is not answered with ILLEGAL_DATA_VAL.
C21_FileShape ==
    /\ (FilePduCall(MBFC_READ_FILE_RECORD) /\ ReadByteCountBad)
          => (last.st = MB_ILLEGAL_DATA_VAL /\ NoRecordWritten)
    /\ (FilePduCall(MBFC_WRITE_FILE_RECORD) /\ WriteByteCountBad)
          => (last.st = MB_ILLEGAL_DATA_VAL /\ NoRecordWritten)
    /\ (FilePduCall(MBFC_WRITE_FILE_RECORD) /\ ~WriteByteCountBad /\ Len(last.req) >= 2)
          => \A offs \in WSubOffsets(0) :
                WSubOverlong(offs)
                   => /\ last.st \in { MB_ILLEGAL_DATA_VAL, MB_ILLEGAL_DATA_ADDR }
                      /\ NoRecordWritten
                      /\ (/\ At(last.req, 2 + offs) = 6
                          /\ WSubField(offs, 1) # 0
                          /\ WSubField(offs, 3) <= 9999
                          /\ \A o \in WSubOffsets(0) : (o < offs) => WSubValid(o))
                            => (last.st = MB_ILLEGAL_DATA_VAL)
    /\ (/\ FilePduCall(MBFC_READ_FILE_RECORD)
        /\ Len(last.req) = 9
        /\ At(last.req, 1) = 7
        /\ At(last.req, 2) = 6
        /\ SubField(0, 1) # 0
        /\ SubField(0, 3) <= 9999
        /\ SubField(0, 5) \in 1..121)
          => (last.st # MB_ILLEGAL_DATA_VAL)

\* a write request whose second sub-request declares two words and carries
\* one has been refused
C21_Witness ==
    /\ FilePduCall(MBFC_WRITE_FILE_RECORD)
    /\ ~WriteByteCountBad
    /\ \E offs \in WSubOffsets(0) :
          offs > 0 /\ WSubOverlong(offs) /\ At(last.req, 2 + offs) = 6
             /\ WSubField(offs, 1) # 0 /\ \A o \in WSubOffsets(0) : (o < offs) => WSubValid(o)
    /\ last.st = MB_ILLEGAL_DATA_VAL
    /\ last.ret = 2

\* sub-request k of the last FC 0x14 request fails a check of the validation
\* loop
ReadSubMalformed(k) ==
    \/ At(last.req, 2 + 7 * k) # 6
    \/ SubField(k, 1) = 0
    \/ SubField(k, 3) > 9999
    \/ SubField(k, 5) = 0

\* the exception of the first check of the validation loop that sub-request
\* k fails
ReadSubMalformedCode(k) ==
    IF At(last.req, 2 + 7 * k) # 6 THEN MB_ILLEGAL_DATA_VAL
    ELSE IF SubField(k, 1) = 0 THEN MB_ILLEGAL_DATA_ADDR
    ELSE IF SubField(k, 3) > 9999 THEN MB_ILLEGAL_DATA_ADDR
    ELSE MB_ILLEGAL_DATA_VAL

\* sub-request k names a file that is not there, or a first record without
\* a descriptor
ReadSubUnknown(k) ==
    \/ ~HasFile(SubField(k, 1))
    \/ ~HasDesc(RecordsOf(SubField(k, 1)), SubField(k, 3))

\* an FC 0x14 request that has passed the byte-count validation
ShapedFileRead ==
    /\ FilePduCall(MBFC_READ_FILE_RECORD)
    /\ Len(last.req) >= 9
    /\ ~ReadByteCountBad

\* the exception response of the last request with the given code, 2 bytes
ExceptionPdu(code) ==
    /\ last.st = code
    /\ last.res = << BitOr(At(last.req, 0), 128), code >>
    /\ last.ret = 2

\* C22 as stated: a sub-request with file number 0, a record number above
\* 0x270F, an absent file or a first record without descriptor yields
\* ILLEGAL_DATA_ADDR; a sub-request with a reference type other than 6 or a
\* record length 0, or a cumulative response above 245 bytes, yields
\* ILLEGAL_DATA_VAL; the response is 2 bytes
C22_Original ==
    ShapedFileRead
       => /\ \A k \in 0..(NSubReqs - 1) :
                /\ (SubField(k, 1) = 0 \/ SubField(k, 3) > 9999
                       \/ (At(last.req, 2 + 7 * k) = 6 /\ SubField(k, 5) # 0
                              /\ ReadSubUnknown(k)))
                      => ExceptionPdu(MB_ILLEGAL_DATA_ADDR)
                /\ (At(last.req, 2 + 7 * k) # 6 \/ SubField(k, 5) = 0)
                      => ExceptionPdu(MB_ILLEGAL_DATA_VAL)
          /\ (SubRespBytes(NSubReqs) > 245) => ExceptionPdu(MB_ILLEGAL_DATA_VAL)

\* C22: an FC 0x14 request is answered with the exception of the first check
\* it fails, in 2 bytes, whatever was read before.  The checks run in this
\* order: for each sub-request in turn, reference type 6 (else
\* ILLEGAL_DATA_VAL), file number not 0, record number up to 0x270F unless
\* extended (else ILLEGAL_DATA_ADDR), record length not 0 (else
\* ILLEGAL_DATA_VAL); then the cumulative response of at most 245 bytes
\* (else ILLEGAL_DATA_VAL); then, for each sub-request in turn, the file is
\* in the table and its first record has a descriptor (else
\* ILLEGAL_DATA_ADDR).
C22_FileReadFaults ==
    ShapedFileRead
       => IF \E k \in 0..(NSubReqs - 1) : ReadSubMalformed(k)
          THEN ExceptionPdu(ReadSubMalformedCode(
                   CHOOSE k \in 0..(NSubReqs - 1) :
                      ReadSubMalformed(k) /\ \A j \in 0..(k - 1) : ~ReadSubMalformed(j)))
          ELSE IF SubRespBytes(NSubReqs) > 245
          THEN ExceptionPdu(MB_ILLEGAL_DATA_VAL)
          ELSE IF \E k \in 0..(NSubReqs - 1) : ReadSubUnknown(k)
          THEN ExceptionPdu(MB_ILLEGAL_DATA_ADDR)
          ELSE last.st = MB_OK

\* the second sub-request names file 5, which is not there, after a first
\* sub-request that can be read
C22_Witness ==
    /\ ShapedFileRead
    /\ NSubReqs = 2
    /\ ~ReadSubMalformed(0) /\ ~ReadSubUnknown(0)
    /\ ~ReadSubMalformed(1) /\ ~HasFile(SubField(1, 1))
    /\ ExceptionPdu(MB_ILLEGAL_DATA_ADDR)

\* the records of the file mbfile_read was called on
ReadFileRecords == cfg.files.d[1].records

\* address of the word at offset w of the last mbfile_read
WordAddr(w) == (last.record_no + w) % 65536

\* the word at offset w can be read: it has a descriptor with read access
\* whose read-lock predicate, if any, does not fire
WordReadable(w) ==
    /\ HasDesc(ReadFileRecords, WordAddr(w))
    /\ DescAt(ReadFileRecords, WordAddr(w)).r # "none"
    /\ ~(DescAt(ReadFileRecords, WordAddr(w)).rlock_cb /\ last.env.rlock)

\* reading the word at offset w fails in the device
WordFails(w) ==
    /\ WordReadable(w)
    /\ DescAt(ReadFileRecords, WordAddr(w)).r = "fn"
    /\ last.env.rfn_st # MB_OK

\* the value of the word at offset w: what its register holds, 0 if it
\* cannot be read
WordValue(w) ==
    IF ~WordReadable(w) THEN 0
    ELSE CASE DescAt(ReadFileRecords, WordAddr(w)).r = "val" ->
                  DescAt(ReadFileRecords, WordAddr(w)).val
           [] DescAt(ReadFileRecords, WordAddr(w)).r = "ptr" ->
                  inst.reg_mem[DescAt(ReadFileRecords, WordAddr(w)).ix]
           [] OTHER -> last.env.rfn_val

\* C23: mbfile_read over record_length words from record_no on returns
\* ILLEGAL_ADDR, emitting nothing, iff record_no has no descriptor; else
\* DEVICE_ERR if the device fails on one of the words; else OK, having
\* appended exactly record_length big-endian words to the response, 0x0000
\* for a word without descriptor, without read access or read-locked.
\* Without a response buffer the status is the same and nothing is emitted.
C23_FileRecords ==
    (last.op = "mbfile_read")
       => /\ (last.st = MBFILE_READ_ILLEGAL_ADDR)
                <=> ~HasDesc(ReadFileRecords, last.record_no)
          /\ (last.st = MBFILE_READ_ILLEGAL_ADDR) => (last.res = last.buf.p)
          /\ (last.st = MBFILE_READ_DEVICE_ERR)
                <=> /\ HasDesc(ReadFileRecords, last.record_no)
                    /\ \E w \in 0..(last.record_length - 1) : WordFails(w)
          /\ (last.st = MBFILE_READ_OK /\ ~last.buf.null)
                => /\ Len(last.res) = Len(last.buf.p) + 2 * last.record_length
                   /\ \A i \in 1..Len(last.buf.p) : last.res[i] = last.buf.p[i]
                   /\ \A w \in 0..(last.record_length - 1) :
                         betou16(last.res, Len(last.buf.p) + 2 * w) = WordValue(w)
          /\ last.buf.null => (last.res = << >>)
          /\ last.st \in { MBFILE_READ_OK, MBFILE_READ_ILLEGAL_ADDR, MBFILE_READ_DEVICE_ERR }

\* three words from record 5 on were read while the read locks fired: a
\* write-only record and two locked records, all emitted as 0x0000
C23_Witness ==
    /\ last.op = "mbfile_read"
    /\ last.record_no = 5
    /\ last.record_length = 3
    /\ last.env.rlock
    /\ last.buf = ResBuf(<< 20, 0 >>)
    /\ last.st = MBFILE_READ_OK
    /\ last.res = << 20, 0, 0, 0, 0, 0, 0, 0 >>

\* an FC 0x15 request that was carried out
SuccessfulFileWrite ==
    /\ FilePduCall(MBFC_WRITE_FILE_RECORD)
    /\ last.st = MB_OK

\* the words the last request supplies: << offs, w >> is word w of the
\* sub-request at offs
SuppliedWords ==
    { t \in WSubOffsets(0) \X (0..122) : t[2] < WSubField(t[1], 5) }

\* the register a supplied word is for
TargetOf(t) ==
    DescAt(RecordsOf(WSubField(t[1], 1)), (WSubField(t[1], 3) + t[2]) % 65536)

\* the supplied word, big-endian in the request
WordOf(t) == betou16(last.req, 2 + t[1] + 7 + 2 * t[2])

\* the supplied words for word ix of reg_mem
WordsFor(ix) ==
    { t \in SuppliedWords : TargetOf(t).w = "ptr" /\ TargetOf(t).ix = ix }

\* the last of the supplied words T in request order
LastSupplied(T) ==
    CHOOSE t \in T : \A u \in T : (u[1] < t[1]) \/ (u[1] = t[1] /\ u[2] <= t[2])

\* C24: a successful FC 0x15 request returns the request PDU byte for byte,
\* returned length = request length; afterwards every record register that
\* the request targets holds the big-endian word the request supplies for
\* it (the last one, if several sub-requests name the register), a register
\* written through a callback has had each word passed to its callback, and
\* registers that no sub-request names are unchanged
C24_FileWrite ==
    SuccessfulFileWrite
       => /\ last.res = last.req
          /\ last.ret = Len(last.req)
          /\ \A ix \in 1..Len(pre.reg_mem) :
                inst.reg_mem[ix] = IF WordsFor(ix) = { } THEN pre.reg_mem[ix]
                                   ELSE WordOf(LastSupplied(WordsFor(ix)))
          /\ \A t \in SuppliedWords :
                (TargetOf(t).w = "fn")
                   => \E i \in 1..Len(last.cbs) :
                         last.cbs[i] = << "reg.write.fn", TargetOf(t).address, WordOf(t) >>

\* records 1, 2 of file 7 and records 1, 2 of file 8 were written in one
\* request
C24_Witness ==
    /\ SuccessfulFileWrite
    /\ last.req = << 21, 22, 6, 0, 7, 0, 1, 0, 2, 18, 52, 171, 205,
                     6, 0, 8, 0, 1, 0, 2, 171, 205, 18, 52 >>
    /\ last.ret = 24
    /\ inst.reg_mem = << 4660, 43981, 3, 43981, 4660 >>

\* where the walk over the write sub-requests of the last request ends
RECURSIVE WSubWalkEnd(_)
WSubWalkEnd(offs) ==
    IF At(last.req, 1) - offs < 7 THEN offs
    ELSE WSubWalkEnd(offs + 7 + 2 * betou16(last.req, 2 + offs + 5))

\* every sub-request of the last FC 0x15 request passes validation: the
\* byte count is in shape, the sub-requests fill it exactly, and each has
\* reference type 6, a file that is there, a record number up to 9999, a
\* record length of at least 1 with all its data, and only target words
\* with a descriptor for which the write is allowed
WriteRequestValid ==
    /\ Len(last.req) >= 11
    /\ ~WriteByteCountBad
    /\ \A offs \in WSubOffsets(0) : WSubValid(offs)
    /\ WSubWalkEnd(0) = At(last.req, 1)

\* the invocations of the callback called name among the callbacks of the
\* last call
Invocations(name) == { i \in 1..Len(last.cbs) : last.cbs[i][1] = name }

FindTable == IF last.op = "mbfile_find" THEN cfg.files ELSE cfg.coils

\* the key of a descriptor of that table
KeyOf(d) == IF last.op = "mbfile_find" THEN d.file_no ELSE d.address

\* the indices of the descriptors with the key looked up
FindHits ==
    IF FindTable.null THEN { }
    ELSE { i \in 1..Len(FindTable.d) : KeyOf(FindTable.d[i]) = last.key }

\* C26: in a table sorted ascending by key without duplicates a lookup
\* returns the descriptor with the key, or none if there is none, whether
\* it takes the binary search (more than 16 entries) or the linear scan,
\* and the binary search returns what the linear scan of the same table
\* returns, for every key, those below the first and above the last entry
\* included; a null table and an empty table return none
C26_FindPaths ==
    (last.op \in { "mbfile_find", "mbcoil_find_desc" })
       => /\ last.found = last.scanned
          /\ (FindHits = { }) => (last.found = NULL)
          /\ (FindHits # { }) => (last.found = FindTable.d[CHOOSE i \in FindHits : TRUE])
          /\ (FindTable.null \/ Len(FindTable.d) = 0) => (last.found = NULL)

\* the binary search has found nothing below the first entry of a table of
\* 17 files
C26_Witness ==
    /\ last.op = "mbfile_find"
    /\ Len(cfg.files.d) = 17
    /\ last.key < cfg.files.d[1].file_no
    /\ last.found = NULL
    /\ last.scanned = NULL

\* the last call was an FC 0x08 request that reached mbfn_digs
DiagCall == (last.op = "diag") /\ (last.path = "handled")

\* the sub-function and the data field of the last FC 0x08 request
DiagSubFn == betou16(last.req, 1)

DiagDataField == betou16(last.req, 3)

\* the sub-functions mbfn_digs serves
DefinedSubFns == 0..4 \cup 10..18 \cup { 20 }

\* the request has not the length 5, or its data field is outside the
\* values allowed for its sub-function
DiagShapeBad ==
    \/ Len(last.req) # 5
    \/ CASE DiagSubFn = 1 -> DiagDataField \notin { 0, 65280 }
         [] DiagSubFn = 3 -> (At(last.req, 3) > 127) \/ (At(last.req, 4) # 0)
         [] OTHER -> DiagDataField # 0

\* the handler has left the instance alone: the mode and the delimiter are
\* as before, no counter was reset (the dispatcher has counted the message
\* and the exception), and the event log has only gained the send event
DiagStateKept ==
    /\ inst.is_listen_only = pre.is_listen_only
    /\ inst.ascii_delimiter = pre.ascii_delimiter
    /\ Counters(inst) = [ Counters(pre) EXCEPT !.msg_counter = @ + 1,
                                               !.exception_counter = @ + 1 ]
    /\ Appended(pre, inst, send_event_of(pre.is_listen_only, last.st))

\* C27: an FC 0x08 request with sub-function 0x0000 and at least 3 bytes is
\* echoed byte for byte; a request of any other served sub-function whose
\* length is not 5 or whose data field is outside the allowed values
\* (restart: 0x0000 or 0xFF00; delimiter: high byte up to 127, low byte 0;
\* all others: 0) yields ILLEGAL_DATA_VAL, invokes no host callback and
\* leaves is_listen_only, ascii_delimiter, the counters and the event log
\* as they were (nothing reset, nothing cleared); an undefined sub-function
\* yields ILLEGAL_FN and a request shorter than 3 bytes ILLEGAL_DATA_VAL
C27_DiagValidation ==
    DiagCall
       => /\ (Len(last.req) >= 3 /\ DiagSubFn = 0)
                => (last.st = MB_OK /\ last.res = last.req /\ last.ret = Len(last.req))
          /\ (Len(last.req) >= 3 /\ DiagSubFn \in DefinedSubFns \ { 0 } /\ DiagShapeBad)
                => /\ last.st = MB_ILLEGAL_DATA_VAL
                   /\ last.cbs = << >>
                   /\ DiagStateKept
          /\ (Len(last.req) >= 3 /\ DiagSubFn \notin DefinedSubFns)
                => (last.st = MB_ILLEGAL_FN)
          /\ (Len(last.req) < 3) => (last.st = MB_ILLEGAL_DATA_VAL)

\* a delimiter request with a low byte of 1 was refused by a device whose
\* counters had moved
C27_Witness ==
    /\ DiagCall
    /\ last.req = << 8, 0, 3, 59, 1 >>
    /\ last.st = MB_ILLEGAL_DATA_VAL
    /\ pre.exception_counter > 0
    /\ pre.bus_msg_counter > 0
    /\ inst.ascii_delimiter = 10

\* the last call handled the PDU of a successful FC 0x08 sub-function sf,
\* handed over directly or in a frame
DiagDone(sf) ==
    /\ last.path = "handled"
    /\ last.st = MB_OK
    /\ Len(last.pdu) = 5
    /\ At(last.pdu, 0) = MBFC_DIAGNOSTICS
    /\ betou16(last.pdu, 1) = sf

\* the last character of a non-empty frame
LastChar(f) == f[Len(f)]

\* C28: ascii_delimiter is within 0..127 in every reachable state (0x0A
\* after init) and changes only by a successful FC 0x08 sub-function 0x03,
\* after which it is the high byte d of the data field; a frame is
\* dispatched only if its last character is the delimiter in force when it
\* arrives (a frame ended by another character, the previous delimiter
\* included, is dropped on the size or the shape test, without dispatch and
\* without response); every
\* response ends with CR and the delimiter in force; Restart Communications
\* leaves the delimiter as it is.
C28_Delimiter ==
    /\ inst.ascii_delimiter \in 0..127
    /\ (calls = 0) => (inst.ascii_delimiter = 10)
    /\ DiagDone(MBFC_DIGS_ASCII_DELIM) => (inst.ascii_delimiter = At(last.pdu, 3))
    /\ (inst.ascii_delimiter # pre.ascii_delimiter) => DiagDone(MBFC_DIGS_ASCII_DELIM)
    /\ DiagDone(MBFC_DIGS_RESTART_COMMS_OPT)
          => (inst.ascii_delimiter = pre.ascii_delimiter)
    /\ AsciiCall
          => /\ (last.adu = "dispatched") => (LastChar(last.req) = pre.ascii_delimiter)
             /\ (LastChar(last.req) # pre.ascii_delimiter)
                   => /\ last.adu \in { "shape", "size" }
                      /\ last.path = "none"
                      /\ last.ret = 0
                      /\ last.res = << >>
                      /\ inst.msg_counter = pre.msg_counter
                      /\ inst.coil_mem = pre.coil_mem
             /\ (last.ret > 0)
                   => /\ last.ret = Len(last.res)
                      /\ last.res[Len(last.res) - 1] = CR
                      /\ LastChar(last.res) = inst.ascii_delimiter

\* after the delimiter was changed to ';' and the communication restarted,
\* a frame ended by ';' is answered with a response ended by CR ';'
C28_Witness ==
    /\ AsciiCall
    /\ calls = 3
    /\ pre.ascii_delimiter = 59
    /\ last.req = ascii_frame(<< SlaveAddr, 8, 0, 1, 0, 0 >>, 59)
    /\ last.adu = "dispatched"
    /\ DiagDone(MBFC_DIGS_RESTART_COMMS_OPT)
    /\ inst.ascii_delimiter = 59
    /\ last.ret > 0
    /\ LastChar(last.res) = 59

\* the last call ran a handler: the request had passed the listen-only gate
Handled == last.path = "handled"

\* the newest entry of the event log
NewestEvent(s) == s.event_log[(s.event_log_write_pos + 63) % 64]

\* the send event the claim states for a status and the mode at entry
SendEventValue(status, listen_only) ==
    64 + (IF status \in 1..3 THEN 1 ELSE 0)
       + (IF status = 4 THEN 2 ELSE 0)
       + (IF status \in 5..6 THEN 4 ELSE 0)
       + (IF status = 7 THEN 8 ELSE 0)
       + (IF listen_only THEN 32 ELSE 0)

\* C29: the send event appended for a request that passed the listen-only
\* gate is 0x40, plus 0x01 for status 1..3, 0x02 for status 4, 0x04 for
\* status 5..6, 0x08 for status 7, plus 0x20 iff the instance was in
\* listen-only mode at entry: bit 7 is never set, status OK and 8 set no
\* exception bit, the Force Listen Only request itself logs the bit clear
\* and the restart that leaves listen-only mode logs it set.
C29_SendEvent ==
    Handled
       => /\ inst.event_log_count >= 1
          /\ inst.hist # << >>
          /\ inst.hist[Len(inst.hist)] = NewestEvent(inst)
          /\ NewestEvent(inst) = SendEventValue(last.st, pre.is_listen_only)
          /\ NewestEvent(inst) < 128
          /\ (last.st \in { MB_OK, MB_MEM_PAR_ERR }) => (NewestEvent(inst) \in { 64, 96 })
          /\ DiagDone(MBFC_DIGS_FORCE_LISTEN) => (NewestEvent(inst) = 64)
          /\ (DiagDone(MBFC_DIGS_RESTART_COMMS_OPT) /\ pre.is_listen_only)
                => (NewestEvent(inst) = 96 /\ ~inst.is_listen_only)

\* the restart that leaves listen-only mode has logged 0x60 after its
\* COMM_RESTART event
C29_Witness ==
    /\ Handled
    /\ last.pdu = << 8, 0, 1, 0, 0 >>
    /\ pre.is_listen_only
    /\ ~inst.is_listen_only
    /\ Len(inst.hist) >= 2
    /\ inst.hist[Len(inst.hist) - 1] = MB_COMM_EVENT_COMM_RESTART
    /\ NewestEvent(inst) = 96

\* the last call got as far as mbpdu_handle_req with valid pointers and a
\* request of at least one byte
PduEntered == last.path \in { "handled", "gated" }

\* send events have bit 6 set and bit 7 clear
IsSendEvent(e) == e \in 64..127

\* the number of send events among the appended events h
SendEvents(h) == Cardinality({ i \in 1..Len(h) : IsSendEvent(h[i]) })

\* the last call was a successful restart that clears the event log
RestartWithClear == DiagDone(MBFC_DIGS_RESTART_COMMS_OPT) /\ (betou16(last.pdu, 3) = 65280)

\* C30: every mbpdu_handle_req call with non-null arguments and at least
\* one request byte appends exactly one send event, which is the newest log
\* entry on return: it follows the COMM_RESTART or ENTERED_LISTEN_ONLY
\* event of the handler and is the only entry after a restart with clear.
\* So an FC 0x0C response holds the log as it was before the send event of
\* that request, which is the newest event of the next FC 0x0C response.
C30_SendEventNewest ==
    /\ PduEntered
          => /\ inst.hist # << >>
             /\ inst.event_log_count >= 1
             /\ IsSendEvent(NewestEvent(inst))
             /\ NewestEvent(inst) = inst.hist[Len(inst.hist)]
             /\ IF RestartWithClear
                THEN /\ Len(inst.hist) = 1
                     /\ inst.event_log_count = 1
                ELSE /\ Len(inst.hist) > Len(pre.hist)
                     /\ SubSeq(inst.hist, 1, Len(pre.hist)) = pre.hist
                     /\ SendEvents(inst.hist) = SendEvents(pre.hist) + 1
             /\ (DiagDone(MBFC_DIGS_RESTART_COMMS_OPT) /\ ~RestartWithClear)
                   => (inst.hist[Len(inst.hist) - 1] = MB_COMM_EVENT_COMM_RESTART)
             /\ DiagDone(MBFC_DIGS_FORCE_LISTEN)
                   => (inst.hist[Len(inst.hist) - 1] = MB_COMM_EVENT_ENTERED_LISTEN_ONLY)
    /\ LogRead
          => /\ Len(last.res) = 8 + Kept(pre)
             /\ SubSeq(last.res, 9, Len(last.res)) = NewestFirst(pre.hist, Kept(pre))
             /\ inst.hist = Append(pre.hist, MB_COMM_EVENT_IS_SEND)
             /\ FollowingEventLog.res[9] = MB_COMM_EVENT_IS_SEND
             /\ SubSeq(FollowingEventLog.res, 10, Len(FollowingEventLog.res))
                   = NewestFirst(pre.hist, Kept(inst) - 1)

\* with a wrapped log, an FC 0x0C response opens with the send events of
\* the two requests before it, both without an exception
C30_Witness ==
    /\ LogRead
    /\ Len(pre.hist) > 64
    /\ Len(last.res) = 72
    /\ last.res[9] = 64
    /\ last.res[10] = 64
    /\ inst.hist[Len(inst.hist)] = 64

\* the last frame passed the shape, hex and LRC checks
FrameChecked == AsciiCall /\ (last.adu \in { "addr", "dispatched" })

\* receive events have bit 7 set
IsRecvEvent(e) == e \in 128..255

\* the number of receive events among the appended events h
RecvEvents(h) == Cardinality({ i \in 1..Len(h) : IsRecvEvent(h[i]) })

\* C31: for every ASCII frame that passes the shape, hex and LRC checks
\* exactly one receive event (bit 7 set) is appended to the event log before
\* the frame is dispatched or dropped, also for a frame addressed to this
\* device's own address outside listen-only mode and for a frame rejected
\* by the address filter.
C31_RecvEvent ==
    (FrameChecked /\ ~RestartWithClear)
       => /\ Len(inst.hist) > Len(pre.hist)
          /\ IsRecvEvent(inst.hist[Len(pre.hist) + 1])
          /\ RecvEvents(inst.hist) = RecvEvents(pre.hist) + 1

\* the last frame was within the size bounds and of the right shape, with
\* a character between ':' and CR that is no hex digit
NonHexFrame == AsciiCall /\ (last.adu = "hex")

\* C32: an ASCII frame within the size bounds that contains a non-hex
\* character between the ':' and the CR is dropped without any exception
\* response (returned length 0, no dispatch), increments
\* bus_comm_err_counter and records an event in the event log.
C32_NonHex ==
    NonHexFrame
       => /\ last.ret = 0
          /\ last.res = << >>
          /\ last.path = "none"
          /\ inst.bus_comm_err_counter = pre.bus_comm_err_counter + 1
          /\ Len(inst.hist) = Len(pre.hist) + 1

\* an FC 0x0F request passed the validation: every coil of its range has a
\* descriptor and no write lock fired
WritePhase ==
    /\ WriteCoilsCall
    /\ \A a \in WriteRange : HasDesc(cfg.coils, a) /\ ~WriteLocked(cfg.coils, a, last.env)

\* the descriptor and the data bit of the coil at offset i of the request
CoilAtOffs(i) == DescAt(cfg.coils, betou16(last.req, 1) + i)

ReqBit(i) == (last.req[7 + i \div 8] \div (2 ^ (i % 8))) % 2

\* the status of the write at offset i
WriteStatus(i) ==
    CASE CoilAtOffs(i).w = "ptr" -> MB_OK
      [] CoilAtOffs(i).w = "fn" -> last.env.wfn_st
      [] OTHER -> MB_DEV_FAIL

\* the first offset whose write fails, the quantity if none does
FirstFailure ==
    LET q == betou16(last.req, 3)
        F == { i \in 0..(q - 1) : WriteStatus(i) # MB_OK }
    IN  IF F = { } THEN q ELSE CHOOSE i \in F : \A j \in F : i <= j

\* bit b of the coil storage mem
MemBit(mem, b) == (mem \div (2 ^ b)) % 2

\* the offsets below the first failure that store into bit b
StoresInto(b) ==
    { i \in 0..(FirstFailure - 1) : (CoilAtOffs(i).w = "ptr") /\ (CoilAtOffs(i).wix = b) }

\* the callbacks of the write phase from offset i on, in ascending order
\* of the offsets: the write callback of a coil, then its post-write hook
\* unless the write failed, which ends the phase
RECURSIVE HooksFrom(_)
HooksFrom(i) ==
    IF i >= betou16(last.req, 3) THEN << >>
    ELSE (IF CoilAtOffs(i).w = "fn"
          THEN << << "write.fn", CoilAtOffs(i).address, ReqBit(i) >> >> ELSE << >>)
         \o (IF WriteStatus(i) # MB_OK THEN << >>
             ELSE (IF CoilAtOffs(i).post_write_cb
                   THEN << << "post_write_cb", CoilAtOffs(i).address, 0 >> >> ELSE << >>)
                  \o HooksFrom(i + 1))

\* C33: in the write phase of FC 0x0F the coils are written in ascending
\* offset order, each post-write hook running right after its own
\* successful write; if the write at offset k fails, the coils below k stay
\* written, the coils above k are not touched, the status is the exception
\* code and commit_coils_write is not invoked; on full success
\* commit_coils_write is invoked exactly once, after the last post-write
\* hook, and the response echoes start address and quantity.
C33_WritePhase ==
    WritePhase
       => LET q == betou16(last.req, 3)
              k == FirstFailure
          IN  /\ \A b \in 0..7 :
                    MemBit(inst.coil_mem, b)
                       = IF StoresInto(b) = { } THEN MemBit(pre.coil_mem, b)
                         ELSE ReqBit(CHOOSE i \in StoresInto(b) :
                                        \A j \in StoresInto(b) : j <= i)
              /\ inst.coil_mem \in 0..255
              /\ (k < q)
                    => /\ last.st = WriteStatus(k)
                       /\ last.res = ExceptionOf(last.req, WriteStatus(k))
                       /\ last.cbs = HooksFrom(0)
                       /\ \A n \in 1..Len(last.cbs) :
                             /\ last.cbs[n][1] # "commit_coils_write_cb"
                             /\ last.cbs[n][2] <= CoilAtOffs(k).address
              /\ (k = q)
                    => /\ last.st = MB_OK
                       /\ last.cbs = HooksFrom(0) \o << << "commit_coils_write_cb", 0, 0 >> >>
                       /\ last.res = SubSeq(last.req, 1, 5)
                       /\ last.ret = 5

\* coils 10..12 are to be set and the write callback of coil 11 fails: coil
\* 10 is written and its hook has run, coil 12 is untouched, no commit
C33_Witness ==
    /\ WritePhase
    /\ last.req = << 15, 0, 10, 0, 3, 1, 7 >>
    /\ last.env.wfn_st = MB_DEV_FAIL
    /\ pre.coil_mem = 5
    /\ inst.coil_mem = 21
    /\ last.res = << 143, 4 >>
    /\ last.cbs = << << "post_write_cb", 10, 0 >>, << "write.fn", 11, 1 >> >>

\* the last call handled the valid FC 0x08 request of sub-function sf with
\* data 0
ClearCall(sf) == DiagCall /\ (last.req = << 8, 0, sf, 0, 0 >>)

\* mode, delimiter and status are as before, the log has gained the send
\* event and nothing else, and the request is echoed in five bytes
ClearKeeps ==
    /\ inst.is_listen_only = pre.is_listen_only
    /\ inst.ascii_delimiter = pre.ascii_delimiter
    /\ inst.status = pre.status
    /\ Appended(pre, inst, MB_COMM_EVENT_IS_SEND)
    /\ last.st = MB_OK
    /\ last.res = last.req
    /\ last.ret = 5

\* C34: a valid FC 0x08 sub 0x0A request sets all nine counters to 0 (they
\* read 0 when mbpdu_handle_req returns) and invokes the reset callback if
\* present; a valid sub 0x14 request sets only bus_char_overrun_counter to
\* 0 and changes no other counter except msg_counter (+1 for the request);
\* neither changes is_listen_only, ascii_delimiter, status or an existing
\* event-log entry, and both echo data 0 in a 5-byte response.
C34_ClearCounters ==
    /\ ClearCall(MBFC_DIGS_CLR_CNTS_N_DIAG_REG)
          => /\ Counters(inst) = ZeroCounters
             /\ last.cbs = IF cfg.has_reset_diagnostics
                           THEN << << "reset_diagnostics_cb", 0, 0 >> >> ELSE << >>
             /\ ClearKeeps
    /\ ClearCall(MBFC_DIGS_CLR_OVERRUN)
          => /\ Counters(inst) = [ Counters(pre) EXCEPT !.msg_counter = @ + 1,
                                                        !.bus_char_overrun_counter = 0 ]
             /\ last.cbs = << >>
             /\ ClearKeeps

\* the overrun counter is cleared on a device that has counted an overrun,
\* a bus message and an exception, which stay counted
C34_Witness ==
    /\ ClearCall(MBFC_DIGS_CLR_OVERRUN)
    /\ pre.bus_char_overrun_counter = 1
    /\ inst.bus_char_overrun_counter = 0
    /\ inst.exception_counter = 1
    /\ inst.msg_counter = 2

\* PDUs of one, four and five bytes that arrive framed for this device
FramedPdus == { << 12 >>, << 8, 0, 0, 171 >>, << 5, 0, 0, 255, 0 >> }

\* what mbpdu_handle_req makes of the PDU p handed over directly, on the
\* instance as the ASCII layer leaves it before the dispatch
DirectOutcome(p) ==
    mbpdu_handle_req(cfg,
        add_recv_event([pre EXCEPT !.bus_msg_counter = @ + 1],
                       IF pre.is_listen_only THEN MB_COMM_EVENT_RECV_LISTEN_MODE ELSE 0),
        p, TRUE, EnvOK)

\* the last frame carried the PDU p and was dispatched and answered as p
\* handed directly to mbpdu_handle_req
FramedAsDirect(p) ==
    /\ last.adu = "dispatched"
    /\ last.pdu = p
    /\ last.pdu_len = DirectOutcome(p).len
    /\ last.pdu_res = DirectOutcome(p).res
    /\ last.res = IF DirectOutcome(p).len = 0 THEN << >>
                  ELSE ascii_frame(<< cfg.slave_addr >> \o DirectOutcome(p).res,
                                   DirectOutcome(p).s.ascii_delimiter)

\* C35: a well-formed ASCII frame addressed to this device that carries a
\* one-byte PDU (9 characters) is dispatched and answered exactly as the
\* same PDU handed directly to mbpdu_handle_req: ASCII framing is
\* transparent for every PDU length from 1 on.
C35_Transparent ==
    \A p \in FramedPdus :
        (AsciiCall /\ (last.req = ascii_frame(<< cfg.slave_addr >> \o p, pre.ascii_delimiter)))
           => FramedAsDirect(p)

\* the same for the PDUs of more than one byte
FramedAsDirectFromTwo ==
    \A p \in { q \in FramedPdus : Len(q) >= 2 } :
        (AsciiCall /\ (last.req = ascii_frame(<< cfg.slave_addr >> \o p, pre.ascii_delimiter)))
           => FramedAsDirect(p)

\* in listen-only mode a request of FC 0x08 sub-function 0x01 arrived whose
\* length is not 5 or whose data is neither 0x0000 nor 0xFF00
BadRestartInListenOnly ==
    /\ DirectPdu
    /\ pre.is_listen_only
    /\ IsRestart(last.req)
    /\ (Len(last.req) # 5) \/ (betou16(last.req, 3) \notin { 0, 65280 })

\* C36: in listen-only mode an FC 0x08 sub 0x01 request that fails
\* validation (length other than 5, or data other than 0x0000/0xFF00)
\* passes the listen-only gate: the instance stays in listen-only mode and
\* 0 is returned, msg_counter and exception_counter are each incremented by
\* 1 and the appended send event carries READ_EX and LISTEN_ONLY (0x61).
C36_BadRestart ==
    BadRestartInListenOnly
       => /\ last.path = "handled"
          /\ last.st = MB_ILLEGAL_DATA_VAL
          /\ last.cbs = << >>
          /\ inst.is_listen_only
          /\ last.ret = 0
          /\ Counters(inst) = [ Counters(pre) EXCEPT !.msg_counter = @ + 1,
                                                     !.exception_counter = @ + 1 ]
          /\ Appended(pre, inst, 97)

\* a restart request with data 0x0001 reached a device in listen-only mode
C36_Witness ==
    /\ BadRestartInListenOnly
    /\ last.req = << 8, 0, 1, 0, 1 >>
    /\ inst.is_listen_only
    /\ inst.exception_counter = pre.exception_counter + 1
    /\ NewestEvent(inst) = 97

\* a request PDU of 1..253 bytes was handed to a built-in handler
SizedCall ==
    /\ last.op \in { "pdu", "ascii" }
    /\ last.path = "handled"
    /\ Len(last.pdu) \in 1..MBPDU_SIZE_MAX
    /\ last.fn # "handle_fn"

\* what the handler left in the response buffer of the direct call, before
\* the status is turned into an exception response
HandlerOutput ==
    handle_files(cfg, [pre EXCEPT !.msg_counter = @ + 1], last.pdu, last.env).res

\* C37: a request PDU of 1..253 bytes served by a built-in handler returns
\* a length of 0 or of 2..253, the handler leaves at most 253 bytes in the
\* response buffer (no index above 252) also when it ends in an exception
\* after partial output, and the ASCII response has at most 513 characters.
C37_ResponseSize ==
    SizedCall
       => /\ (last.pdu_len = 0) \/ (last.pdu_len \in 2..MBPDU_SIZE_MAX)
          /\ Len(last.pdu_res) <= MBPDU_SIZE_MAX
          /\ (last.op = "pdu") /\ ("env" \in DOMAIN last) /\ ("files" \in DOMAIN cfg)
                => Len(HandlerOutput) <= MBPDU_SIZE_MAX
          /\ (last.op = "ascii") => Len(last.res) <= MBADU_ASCII_SIZE_MAX

\* a file read ended in an exception after a first sub-response of 122
\* bytes had been written
C37_Witness ==
    /\ SizedCall
    /\ last.op = "pdu"
    /\ At(last.pdu, 0) = MBFC_READ_FILE_RECORD
    /\ last.st = MB_ILLEGAL_DATA_ADDR
    /\ last.ret = 2
    /\ Len(HandlerOutput) >= 124

\* the largest responses are reached: a PDU response of 253 bytes and an
\* ASCII response of 513 characters
LargestResponses ==
    /\ SizedCall
    /\ last.op = "ascii"
    /\ last.pdu_len = MBPDU_SIZE_MAX
    /\ Len(last.res) = MBADU_ASCII_SIZE_MAX

\* the address i places after a in 16-bit arithmetic
WrapAddr(a, i) == IF a + i >= 65536 THEN a + i - 65536 ELSE a + i

\* a handled request of function code fc whose range start + quantity
\* passes address 0xFFFF; the start is at byte offs of the request
Wrapping(fcs, offs) ==
    /\ last.op = "pdu"
    /\ last.path = "handled"
    /\ At(last.req, 0) \in fcs
    /\ Len(last.req) >= offs + 4
    /\ betou16(last.req, offs) + betou16(last.req, offs + 2) > 65536

\* a read of coils or inputs passing 0xFFFF is answered, and bit i of the
\* data is the object at address (start + i) mod 2^16, 0 if there is none
WrappedBitRead ==
    Wrapping({ MBFC_READ_COILS, MBFC_READ_DISC_INPUTS }, 1)
       /\ HasDesc(TableOf(At(last.req, 0)), betou16(last.req, 1))
       => /\ last.st = MB_OK
          /\ last.ret = 3
          /\ \A i \in 0..(betou16(last.req, 3) - 1) :
                DataBit(last.res, i)
                   = IF ReadsOn(TableOf(At(last.req, 0)),
                                WrapAddr(betou16(last.req, 1), i), pre, last.env)
                     THEN 1 ELSE 0

\* the coils that a write passing 0xFFFF addresses exist
WrappedTargetsExist ==
    \A i \in 0..(betou16(last.req, 3) - 1) :
       HasDesc(cfg.coils, WrapAddr(betou16(last.req, 1), i))

\* the coils that a write passing 0xFFFF addresses exist and are writable
WrappedTargetsWritable ==
    \A i \in 0..(betou16(last.req, 3) - 1) :
       /\ HasDesc(cfg.coils, WrapAddr(betou16(last.req, 1), i))
       /\ DescAt(cfg.coils, WrapAddr(betou16(last.req, 1), i)).w = "ptr"

\* a write of coils passing 0xFFFF is accepted when the coils at the
\* addresses (start + i) mod 2^16 exist and are writable, and stores
\* request bit i in the coil at that address; it fails only for a coil
\* that is missing (nothing is written) or that has no write access
WrappedBitWrite ==
    Wrapping({ MBFC_WRITE_MULTIPLE_COILS }, 1)
       => IF WrappedTargetsWritable
          THEN /\ last.st = MB_OK
               /\ last.res = SubSeq(last.req, 1, 5)
               /\ \A i \in 0..(betou16(last.req, 3) - 1) :
                     MemBit(inst.coil_mem,
                            DescAt(cfg.coils, WrapAddr(betou16(last.req, 1), i)).wix)
                        = ReqBit(i)
          ELSE IF WrappedTargetsExist
          THEN last.st = MB_DEV_FAIL
          ELSE /\ last.st = MB_ILLEGAL_DATA_ADDR
               /\ inst.coil_mem = pre.coil_mem

\* the word of file 9 at record r as the instance s holds it
WrapWord(s, r) ==
    IF ~HasDesc(WrapFile.records, r) THEN 0
    ELSE IF DescAt(WrapFile.records, r).r = "ptr"
    THEN s.reg_mem[DescAt(WrapFile.records, r).ix]
    ELSE DescAt(WrapFile.records, r).val

\* a read of file records passing record 0xFFFF returns the words at the
\* records (record_no + i) mod 2^16
WrappedFileRead ==
    Wrapping({ MBFC_READ_FILE_RECORD }, 5)
       /\ HasDesc(WrapFile.records, betou16(last.req, 5))
       => /\ last.st = MB_OK
          /\ last.ret = 4 + 2 * betou16(last.req, 7)
          /\ \A i \in 0..(betou16(last.req, 7) - 1) :
                betou16(last.res, 4 + 2 * i) = WrapWord(pre, WrapAddr(betou16(last.req, 5), i))

\* a write of file records passing record 0xFFFF stores word i at the
\* record (record_no + i) mod 2^16 when all these records are writable
WrappedFileWrite ==
    Wrapping({ MBFC_WRITE_FILE_RECORD }, 5)
       /\ (\A i \in 0..(betou16(last.req, 7) - 1) :
              /\ HasDesc(WrapFile.records, WrapAddr(betou16(last.req, 5), i))
              /\ DescAt(WrapFile.records, WrapAddr(betou16(last.req, 5), i)).w = "ptr")
       => /\ last.st = MB_OK
          /\ last.res = last.req
          /\ \A i \in 0..(betou16(last.req, 7) - 1) :
                inst.reg_mem[DescAt(WrapFile.records, WrapAddr(betou16(last.req, 5), i)).ix]
                   = betou16(last.req, 9 + 2 * i)

\* C38: in FC 0x01/0x02/0x0F and in the walks over file records the
\* target address is (start_addr + i) mod 2^16: a request whose
\* start_addr + quantity exceeds 0x10000 is not rejected for that but
\* continues with the objects at addresses 0, 1, ... after address 0xFFFF.
C38_AddressWrap ==
    /\ WrappedBitRead
    /\ WrappedBitWrite
    /\ WrappedFileRead
    /\ WrappedFileWrite

\* three coils were written from address 0xFFFF on: the coils at 0xFFFF, 0
\* and 1 hold the request bits, and the stored bit of coil 0 changed
C38_Witness ==
    /\ Wrapping({ MBFC_WRITE_MULTIPLE_COILS }, 1)
    /\ betou16(last.req, 1) = 65535
    /\ betou16(last.req, 3) = 3
    /\ last.st = MB_OK
    /\ MemBit(inst.coil_mem, 0) # MemBit(pre.coil_mem, 0)
    /\ MemBit(inst.coil_mem, 0) = ReqBit(1)

\* a read of three coils from address 0xFFFE returned the stored bit of
\* coil 0 as its third bit
WrappedReadSeen ==
    /\ Wrapping({ MBFC_READ_COILS }, 1)
    /\ betou16(last.req, 1) = 65534
    /\ last.st = MB_OK
    /\ DataBit(last.res, 2) = 1
    /\ MemBit(pre.coil_mem, 0) = 1

\* a read of two file records from record 0xFFFF returned record 0
WrappedFileReadSeen ==
    /\ Wrapping({ MBFC_READ_FILE_RECORD }, 5)
    /\ last.st = MB_OK
    /\ betou16(last.req, 5) = 65535
    /\ betou16(last.res, 6) = WrapWord(pre, 0)

\* a frame carrying a successful Change ASCII Delimiter request was
\* answered
DelimiterChangeAnswered ==
    /\ AsciiCall
    /\ last.adu = "dispatched"
    /\ DiagDone(MBFC_DIGS_ASCII_DELIM)
    /\ last.ret > 0

\* C39: the ASCII response to a successful Change ASCII Delimiter request
\* (FC 0x08 sub 0x03) ends with the delimiter the request has just stored,
\* not with the delimiter that ended the request: the response is the echo
\* of the request framed with the delimiter read from the instance after
\* the PDU has been handled.
C39_ResponseDelimiter ==
    DelimiterChangeAnswered
       => /\ LastChar(last.req) = pre.ascii_delimiter
          /\ inst.ascii_delimiter = At(last.pdu, 3)
          /\ last.res = ascii_frame(<< last.addr >> \o last.pdu, At(last.pdu, 3))
          /\ last.ret = Len(last.res)
          /\ LastChar(last.res) = At(last.pdu, 3)
          /\ (At(last.pdu, 3) # pre.ascii_delimiter)
                => (LastChar(last.res) # LastChar(last.req))

\* a request ended by LF changed the delimiter to ';' and its response
\* ends with ';'
C39_Witness ==
    /\ DelimiterChangeAnswered
    /\ last.req = ascii_frame(<< SlaveAddr, 8, 0, 3, 59, 0 >>, 10)
    /\ pre.ascii_delimiter = 10
    /\ LastChar(last.res) = 59
    /\ last.res # last.req

\* the valid Restart Communications requests
RestartReqs == { << 8, 0, 1, 0, 0 >>, << 8, 0, 1, 255, 0 >> }

\* the request of Force Listen Only
ForceListenReq == << 8, 0, 4, 0, 0 >>

\* valid requests that a device may receive next
NextValidReqs ==
    { << 11 >>, << 12 >>, << 8, 0, 0, 171 >>, << 8, 0, 14, 0, 0 >>, << 8, 0, 3, 59, 0 >>,
      << 8, 0, 1, 0, 0 >>, << 1, 0, 0, 0, 4 >>, << 5, 0, 0, 255, 0 >>,
      << 15, 0, 0, 0, 2, 1, 3 >>, ForceListenReq }

\* the instance after the restart request r has been delivered now
AfterRestart(r) == mbpdu_handle_req(cfg, inst, r, TRUE, EnvOK).s

\* the instance after the restart request r has been delivered now in a
\* frame addressed to the device
AfterFramedRestart(r) ==
    mbadu_ascii_handle_req(cfg, inst, ascii_frame(<< SlaveAddr >> \o r, inst.ascii_delimiter),
                           TRUE, EnvOK).s

\* is_listen_only was set by the last call only if that was a successful
\* Force Listen Only, and cleared only if it was a successful restart
ListenOnlyChanges ==
    /\ (inst.is_listen_only /\ ~pre.is_listen_only) => DiagDone(MBFC_DIGS_FORCE_LISTEN)
    /\ (~inst.is_listen_only /\ pre.is_listen_only) => DiagDone(MBFC_DIGS_RESTART_COMMS_OPT)
    /\ DiagDone(MBFC_DIGS_FORCE_LISTEN) => inst.is_listen_only
    /\ DiagDone(MBFC_DIGS_RESTART_COMMS_OPT) => ~inst.is_listen_only

\* one valid restart delivered now, directly or in a frame, leaves the
\* device out of listen-only mode
RestartLeaves ==
    \A r \in RestartReqs :
       /\ ~AfterRestart(r).is_listen_only
       /\ ~AfterFramedRestart(r).is_listen_only

\* after a restart delivered now, the requests of reqs handed to
\* mbpdu_handle_req are processed and answered with a non-zero length
AnsweredAfterRestart(reqs) ==
    \A r \in RestartReqs, q \in reqs :
       LET o == mbpdu_handle_req(cfg, AfterRestart(r), q, TRUE, EnvOK)
       IN  (o.path = "handled") /\ (o.len > 0) /\ (o.len = Len(o.res))

\* after a restart delivered now, Force Listen Only is processed and not
\* answered
ForceListenAfterRestart ==
    \A r \in RestartReqs :
       LET o == mbpdu_handle_req(cfg, AfterRestart(r), ForceListenReq, TRUE, EnvOK)
       IN  (o.path = "handled") /\ (o.st = MB_OK) /\ (o.len = 0) /\ o.s.is_listen_only

\* C40: is_listen_only becomes true only by a successful FC 0x08 sub 0x04
\* and false only by a successful FC 0x08 sub 0x01; from every reachable
\* state one valid Restart Communications request leaves is_listen_only
\* false, after which the next valid request handed to mbpdu_handle_req is
\* processed, and answered with a non-zero length unless it is Force Listen
\* Only, which is processed, sets the flag again and returns 0.
C40_ListenOnlyLeft ==
    /\ ListenOnlyChanges
    /\ RestartLeaves
    /\ AnsweredAfterRestart(NextValidReqs \ { ForceListenReq })
    /\ ForceListenAfterRestart

\* a device in listen-only mode has just been restarted: the flag is clear
\* and the restart itself was not answered
C40_Witness ==
    /\ DiagDone(MBFC_DIGS_RESTART_COMMS_OPT)
    /\ pre.is_listen_only
    /\ ~inst.is_listen_only
    /\ last.ret = 0
    /\ calls >= 2

\* C40 as stated: after the restart every next valid request is answered
\* with a non-zero length
C40_EveryRequestAnswered ==
    /\ ListenOnlyChanges
    /\ RestartLeaves
    /\ AnsweredAfterRestart(NextValidReqs)

====
